---- MODULE Spec2Model ----
(***************************************************************************)
(* A model of the HOCON-like parser of src/lib/hoconParser.js (the last   *)
(* of the three versions the file holds, lines 1478-2243).                 *)
(*                                                                         *)
(* Text is a sequence of one-character strings.  A JavaScript value is a  *)
(* record tagged by its field t:                                           *)
(*   undefined  [t |-> "undef"]          null   [t |-> "null"]             *)
(*   boolean    [t |-> "bool", b]        string [t |-> "str", s]           *)
(*   number     [t |-> "num", neg, mant, scale]   (mant / 10^scale)        *)
(*   array      [t |-> "arr", items]                                       *)
(*   object     [t |-> "obj", keys, vals]  (keys in insertion order)       *)
(* The deferred nodes of the parser are plain objects, as in the source:   *)
(* {__type: "REF", path} and {__type: "FALLBACK", main, fallback}.         *)
(***************************************************************************)
EXTENDS Integers, Sequences, FiniteSets, TLC

----------------------------------------------------------------------------
(* Text *)

Chars(s) == [i \in 1..Len(s) |-> SubSeq(s, i, i)]

IsSpace(c) == c \in {" ", "\t"}

Digits == Chars("0123456789")
LowerCase == Chars("abcdefghijklmnopqrstuvwxyz")
UpperCase == Chars("ABCDEFGHIJKLMNOPQRSTUVWXYZ")

Range(s) == {s[i] : i \in DOMAIN s}

IsDigit(c) == c \in Range(Digits)

\* \w of the regular expressions: [A-Za-z0-9_]
IsWord(c) == c \in Range(Digits) \cup Range(LowerCase) \cup Range(UpperCase) \cup {"_"}

ToLowerChar(c) ==
    IF c \in Range(UpperCase)
    THEN LowerCase[CHOOSE i \in DOMAIN UpperCase : UpperCase[i] = c]
    ELSE c

\* String.prototype.toLowerCase
ToLower(s) == [i \in DOMAIN s |-> ToLowerChar(s[i])]

\* String.prototype.slice(from, to) with 1-based inclusive bounds
Slice(s, from, to) == IF from > to THEN <<>> ELSE SubSeq(s, from, to)

\* String.prototype.trim
Trim(s) ==
    LET ns == {i \in DOMAIN s : ~IsSpace(s[i])}
    IN  IF ns = {} THEN <<>>
        ELSE Slice(s, CHOOSE i \in ns : \A j \in ns : i <= j,
                      CHOOSE i \in ns : \A j \in ns : j <= i)

\* String.prototype.startsWith / endsWith / includes
StartsWith(s, p) == Len(s) >= Len(p) /\ SubSeq(s, 1, Len(p)) = p
EndsWith(s, p) == Len(s) >= Len(p) /\ SubSeq(s, Len(s) - Len(p) + 1, Len(s)) = p
OccursAt(s, p, i) == i >= 1 /\ i + Len(p) - 1 <= Len(s) /\ SubSeq(s, i, i + Len(p) - 1) = p
Includes(s, p) == \E i \in 1..Len(s) : OccursAt(s, p, i)

\* the smallest member of a non-empty set of integers
Min(S) == CHOOSE i \in S : \A j \in S : i <= j

\* String.prototype.split(sep) for a one-character separator
RECURSIVE SplitOn(_, _)
SplitOn(s, sep) ==
    LET at == {i \in DOMAIN s : s[i] = sep}
    IN  IF at = {} THEN <<s>>
        ELSE <<Slice(s, 1, Min(at) - 1)>> \o SplitOn(Slice(s, Min(at) + 1, Len(s)), sep)

\* Array.prototype.join(sep)
RECURSIVE Join(_, _)
Join(parts, sep) ==
    IF parts = <<>> THEN <<>>
    ELSE IF Len(parts) = 1 THEN parts[1]
    ELSE parts[1] \o sep \o Join(Tail(parts), sep)

\* Array.prototype.filter
RECURSIVE SelectNonEmpty(_)
SelectNonEmpty(parts) ==
    IF parts = <<>> THEN <<>>
    ELSE IF parts[1] = <<>> THEN SelectNonEmpty(Tail(parts))
    ELSE <<parts[1]>> \o SelectNonEmpty(Tail(parts))

----------------------------------------------------------------------------
(* Values *)

Undef == [t |-> "undef"]
Null == [t |-> "null"]
Bool(b) == [t |-> "bool", b |-> b]
Str(s) == [t |-> "str", s |-> s]
\* an array may carry named properties besides its items (setVal can add them)
ArrP(items, keys, vals) == [t |-> "arr", items |-> items, keys |-> keys, vals |-> vals]
Arr(items) == ArrP(items, <<>>, <<>>)
Obj(keys, vals) == [t |-> "obj", keys |-> keys, vals |-> vals]
EmptyObj == Obj(<<>>, <<>>)

IsUndef(v) == v.t = "undef"
IsNull(v) == v.t = "null"
IsStr(v) == v.t = "str"
IsNum(v) == v.t = "num"
IsBool(v) == v.t = "bool"
IsArr(v) == v.t = "arr"
IsObj(v) == v.t = "obj"

RECURSIVE Pow10(_)
Pow10(n) == IF n = 0 THEN 1 ELSE 10 * Pow10(n - 1)

\* a number mant / 10^scale in lowest terms of ten; -0 and 0 are one value
RECURSIVE NormNum(_, _, _)
NormNum(neg, mant, scale) ==
    IF scale > 0 /\ mant % 10 = 0 THEN NormNum(neg, mant \div 10, scale - 1)
    ELSE [t |-> "num", neg |-> (neg /\ mant # 0), mant |-> mant, scale |-> scale]

Num(n) == NormNum(n < 0, IF n < 0 THEN -n ELSE n, 0)

\* JavaScript truthiness, and typeof x === "object"
Truthy(v) ==
    CASE v.t = "undef" -> FALSE
      [] v.t = "null" -> FALSE
      [] v.t = "bool" -> v.b
      [] v.t = "num" -> v.mant # 0
      [] v.t = "str" -> v.s # <<>>
      [] OTHER -> TRUE
TypeofObject(v) == v.t \in {"null", "arr", "obj"}

\* x === undefined || x === null
isUndefOrNull(x) == IsUndef(x) \/ IsNull(x)

RECURSIVE DigitsValue(_)
DigitsValue(ds) ==
    IF ds = <<>> THEN 0
    ELSE 10 * DigitsValue(SubSeq(ds, 1, Len(ds) - 1))
         + ((CHOOSE i \in DOMAIN Digits : Digits[i] = ds[Len(ds)]) - 1)

RECURSIVE NatToText(_)
NatToText(n) == IF n < 10 THEN <<Digits[n + 1]>> ELSE NatToText(n \div 10) \o <<Digits[(n % 10) + 1]>>

\* an array index written as a property key ("0", "1", ...)
IsIndexKey(k) == k # <<>> /\ (\A i \in DOMAIN k : IsDigit(k[i])) /\ (Len(k) = 1 \/ k[1] # "0")
LengthKey == Chars("length")

KeyPos(o, k) == CHOOSE i \in DOMAIN o.keys : o.keys[i] = k
HasOwn(o, k) == \E i \in DOMAIN o.keys : o.keys[i] = k

\* o[k] for an object or an array o
GetProp(o, k) ==
    IF IsArr(o) /\ IsIndexKey(k)
    THEN IF DigitsValue(k) < Len(o.items) THEN o.items[DigitsValue(k) + 1] ELSE Undef
    ELSE IF IsArr(o) /\ k = LengthKey THEN Num(Len(o.items))
    ELSE IF HasOwn(o, k) THEN o.vals[KeyPos(o, k)]
    ELSE Undef

\* o[k] = v for an object or an array o: an own key keeps its place, a new key
\* goes last; an index past the end of an array leaves holes (read as undefined)
SetProp(o, k, v) ==
    IF IsArr(o) /\ IsIndexKey(k)
    THEN LET n == DigitsValue(k)
         IN  [o EXCEPT !.items =
                [i \in 1..(IF n < Len(o.items) THEN Len(o.items) ELSE n + 1) |->
                    IF i = n + 1 THEN v ELSE IF i <= Len(o.items) THEN o.items[i] ELSE Undef]]
    ELSE IF HasOwn(o, k) THEN [o EXCEPT !.vals[KeyPos(o, k)] = v]
    ELSE [o EXCEPT !.keys = Append(o.keys, k), !.vals = Append(o.vals, v)]

----------------------------------------------------------------------------
(* Scalars: resolveEnvOrRef, safeEnvLookup, maybeConvertPrimitive *)

DQ == Chars("\"")
SQ == Chars("'")
TripleQuote == Chars("\"\"\"")

TypeKey == Chars("__type")
PathKey == Chars("path")
MainKey == Chars("main")
FallbackKey == Chars("fallback")
RefTag == Str(Chars("REF"))
FallbackTag == Str(Chars("FALLBACK"))

\* { __type: "REF", path: refPath }
RefNode(refPath) == Obj(<<TypeKey, PathKey>>, <<RefTag, Str(refPath)>>)
\* { __type: "FALLBACK", main: mainVal, fallback: fbVal }
FallbackNode(mainVal, fbVal) ==
    Obj(<<TypeKey, MainKey, FallbackKey>>, <<FallbackTag, mainVal, fbVal>>)

\* /^[+-]?\d+(\.\d+)?$/
Unsigned(raw) == IF raw # <<>> /\ raw[1] \in {"+", "-"} THEN Tail(raw) ELSE raw
AllDigits(s) == s # <<>> /\ \A i \in DOMAIN s : IsDigit(s[i])
NumericParts(parts) ==
    \/ Len(parts) = 1 /\ AllDigits(parts[1])
    \/ Len(parts) = 2 /\ AllDigits(parts[1]) /\ AllDigits(parts[2])
IsNumeric(raw) == NumericParts(SplitOn(Unsigned(raw), "."))

\* parseFloat of a text that IsNumeric accepts: the digits before and after the point
FloatOf(neg, whole, frac) == NormNum(neg, DigitsValue(whole \o frac), Len(frac))
FloatOfParts(neg, parts) == FloatOf(neg, parts[1], IF Len(parts) = 2 THEN parts[2] ELSE <<>>)
parseFloat(raw) == FloatOfParts(raw[1] = "-", SplitOn(Unsigned(raw), "."))

\* Number.isInteger
NumberIsInteger(num) == num.scale = 0

\* /^(?i:true)$/, /^(?i:false)$/, /^(?i:null)$/ on the lower-cased text
IsWordTrue(lower) == lower = Chars("true")
IsWordFalse(lower) == lower = Chars("false")
IsWordNull(lower) == lower = Chars("null")

\* the numeric branch without the decimal-point rule
convertNumericNoDecimalRule(raw, num) == num

\* the numeric branch: a text with a decimal point whose value is an integer stays text
convertNumeric(raw, num) == IF Includes(raw, <<".">>) /\ NumberIsInteger(num) THEN Str(raw) ELSE num

\* maybeConvertPrimitive from const raw = String(str).trim() on
convertRaw(raw, lower) ==
    IF IsWordTrue(lower) THEN Bool(TRUE)
    ELSE IF IsWordFalse(lower) THEN Bool(FALSE)
    ELSE IF IsWordNull(lower) THEN Null
    ELSE IF IsNumeric(raw) THEN convertNumeric(raw, parseFloat(raw))
    ELSE Str(raw)

convertText(raw) == convertRaw(raw, ToLower(raw))

\* maybeConvertPrimitive(str): str is undefined, null or a string
maybeConvertPrimitive(str) == IF isUndefOrNull(str) THEN str ELSE convertText(Trim(str.s))

\* one layer of matching quotes: "..." or '...' (a lone quote character matches too)
IsQuoted(raw) ==
    \/ StartsWith(raw, DQ) /\ EndsWith(raw, DQ)
    \/ StartsWith(raw, SQ) /\ EndsWith(raw, SQ)

\* process.env[key] with one layer of quotes removed; env maps names to strings
stripEnvQuotes(val) ==
    IF isUndefOrNull(val) THEN val
    ELSE IF IsQuoted(val.s) THEN Str(Slice(val.s, 2, Len(val.s) - 1))
    ELSE val
safeEnvLookup(env, key) == stripEnvQuotes(IF key \in DOMAIN env THEN env[key] ELSE Undef)

AllWord(s) == s # <<>> /\ \A i \in DOMAIN s : IsWord(s[i])
\* /^\?([\w_]+)$/
IsShortEnv(raw) == StartsWith(raw, Chars("?")) /\ AllWord(Tail(raw))
\* /^\$\{\?([\w_]+)\}$/
IsCurlyEnv(raw) ==
    StartsWith(raw, Chars("${?")) /\ EndsWith(raw, Chars("}"))
    /\ AllWord(Slice(raw, 4, Len(raw) - 1))
\* /^\$\{([\w.\-_]+)\}$/
IsRefText(raw) ==
    /\ StartsWith(raw, Chars("${")) /\ EndsWith(raw, Chars("}")) /\ Len(raw) >= 4
    /\ \A i \in 3..(Len(raw) - 1) : IsWord(raw[i]) \/ raw[i] \in {".", "-"}

\* replace(/\\n/g, "\n"): a backslash followed by n becomes a line break
RECURSIVE DecodeNewlines(_)
DecodeNewlines(s) ==
    IF s = <<>> THEN <<>>
    ELSE IF OccursAt(s, Chars("\\n"), 1) THEN <<"\n">> \o DecodeNewlines(Slice(s, 3, Len(s)))
    ELSE <<s[1]>> \o DecodeNewlines(Tail(s))

\* the value of an environment lookup inside resolveEnvOrRef
EnvValue(envVar, wasQuoted) ==
    IF wasQuoted THEN envVar ELSE maybeConvertPrimitive(envVar)

\* the text the last three returns of resolveEnvOrRef convert: the environment
\* value for ?NAME and ${?NAME}, the text itself otherwise
lookedUp(env, raw) ==
    IF IsShortEnv(raw) THEN safeEnvLookup(env, Tail(raw))
    ELSE IF IsCurlyEnv(raw) THEN safeEnvLookup(env, Slice(raw, 4, Len(raw) - 1))
    ELSE Str(raw)

\* resolveEnvOrRef forgetting that the token was quoted
resolveUnquotedCoercing(env, raw, wasQuoted) ==
    IF ~IsShortEnv(raw) /\ ~IsCurlyEnv(raw) /\ IsRefText(raw)
    THEN RefNode(Slice(raw, 3, Len(raw) - 1))
    ELSE EnvValue(lookedUp(env, raw), FALSE)

\* resolveEnvOrRef once one layer of quotes is off: raw is the text without them
resolveUnquoted(env, raw, wasQuoted) ==
    IF ~IsShortEnv(raw) /\ ~IsCurlyEnv(raw) /\ IsRefText(raw)
    THEN RefNode(Slice(raw, 3, Len(raw) - 1))
    ELSE EnvValue(lookedUp(env, raw), wasQuoted)

\* raw.slice(1, -1) when raw is quoted
stripQuotes(raw) == IF IsQuoted(raw) THEN Slice(raw, 2, Len(raw) - 1) ELSE raw

resolveEnvOrRef(env, raw) ==
    IF StartsWith(raw, TripleQuote) /\ EndsWith(raw, TripleQuote)
    THEN Str(DecodeNewlines(Slice(raw, 4, Len(raw) - 3)))
    ELSE resolveUnquoted(env, stripQuotes(raw), IsQuoted(raw))

----------------------------------------------------------------------------
(* Arrays and tokens: parseInlineArray, tokenizeLine, extractTopLevelBlocks *)

\* split(/[\s,]+/).map(trim).filter(Boolean): the maximal runs of other characters
IsItemSep(c) == IsSpace(c) \/ c = ","
RECURSIVE SplitItems(_)
SplitItems(s) ==
    IF s = <<>> THEN <<>>
    ELSE IF IsItemSep(s[1]) THEN SplitItems(Tail(s))
    ELSE LET seps == {i \in DOMAIN s : IsItemSep(s[i])}
             stop == IF seps = {} THEN Len(s) + 1 ELSE Min(seps)
         IN  <<Slice(s, 1, stop - 1)>> \o SplitItems(Slice(s, stop, Len(s)))

parseInlineArray(env, arrStr) ==
    LET inner == Trim(Slice(arrStr, 2, Len(arrStr) - 1))
        items == SplitItems(inner)
    IN  Arr([i \in DOMAIN items |-> resolveEnvOrRef(env, items[i])])

\* the loop of extractTopLevelBlocks from index i (1-based) on
RECURSIVE ExtractLoop(_, _, _, _, _, _, _)
ExtractLoop(str, startChar, endChar, i, depth, startIndex, blocks) ==
    IF i > Len(str) THEN blocks
    ELSE IF str[i] = startChar
         THEN ExtractLoop(str, startChar, endChar, i + 1, depth + 1,
                          IF depth = 0 THEN i ELSE startIndex, blocks)
    ELSE IF str[i] = endChar
         THEN IF depth - 1 = 0 /\ startIndex # -1
              THEN ExtractLoop(str, startChar, endChar, i + 1, depth - 1, -1,
                               Append(blocks, Slice(str, startIndex, i)))
              ELSE ExtractLoop(str, startChar, endChar, i + 1, depth - 1, startIndex, blocks)
    ELSE ExtractLoop(str, startChar, endChar, i + 1, depth, startIndex, blocks)

extractTopLevelBlocks(str, startChar, endChar) ==
    ExtractLoop(str, startChar, endChar, 1, 0, -1, <<>>)

IsBracketOrBrace(c) == c \in {"[", "]", "{", "}"}

\* the index after a group opened at position i - 1: the inner while of tokenizeLine
RECURSIVE GroupEnd(_, _, _, _, _)
GroupEnd(line, i, depth, open, close) ==
    IF i <= Len(line) /\ depth > 0
    THEN GroupEnd(line, i + 1,
                  IF line[i] = open THEN depth + 1
                  ELSE IF line[i] = close THEN depth - 1 ELSE depth,
                  open, close)
    ELSE i

\* the index after a plain token starting at position i
RECURSIVE WordEnd(_, _)
WordEnd(line, i) ==
    IF i <= Len(line) /\ ~IsSpace(line[i]) /\ ~IsBracketOrBrace(line[i])
    THEN WordEnd(line, i + 1)
    ELSE i

\* the outer while of tokenizeLine; at a "]" or "}" outside a group the index never
\* moves again and the loop does not end: hang is then TRUE
RECURSIVE TokenLoop(_, _, _)
TokenLoop(line, i, tokens) ==
    IF i > Len(line) THEN [hang |-> FALSE, tokens |-> tokens]
    ELSE IF IsSpace(line[i]) THEN TokenLoop(line, i + 1, tokens)
    ELSE IF line[i] \in {"[", "{"}
         THEN LET stop == GroupEnd(line, i + 1, 1, line[i], IF line[i] = "[" THEN "]" ELSE "}")
              IN  TokenLoop(line, stop, Append(tokens, Trim(Slice(line, i, stop - 1))))
    ELSE LET stop == WordEnd(line, i)
             text == Trim(Slice(line, i, stop - 1))
         IN  IF stop = i
             THEN [hang |-> TRUE, tokens |-> tokens]
             ELSE TokenLoop(line, stop, IF text # <<>> THEN Append(tokens, text) ELSE tokens)

tokenizeLine(line) == TokenLoop(line, 1, <<>>)

----------------------------------------------------------------------------
(* Trees: setVal, getVal, mergeObjs, deepClone *)

\* cur[p] when it is an object to descend into, a fresh {} otherwise
subObject(child) == IF ~Truthy(child) \/ ~TypeofObject(child) THEN EmptyObj ELSE child

\* the loop and the final assignment of setVal, over the non-empty parts of the key
RECURSIVE SetPath(_, _, _)
SetPath(cur, parts, value) ==
    SetProp(cur, parts[1],
            IF Len(parts) = 1 THEN value
            ELSE SetPath(subObject(GetProp(cur, parts[1])), Tail(parts), value))

setVal(obj, dottedKey, value) ==
    LET parts == SelectNonEmpty(SplitOn(dottedKey, "."))
    IN  IF parts = <<>> THEN obj ELSE SetPath(obj, parts, value)

RECURSIVE GetPath(_, _)
GetPath(c, parts) ==
    IF parts = <<>> THEN c
    ELSE IF ~Truthy(c) \/ ~TypeofObject(c) THEN Undef
    ELSE GetPath(GetProp(c, parts[1]), Tail(parts))

getVal(obj, dottedKey) == GetPath(obj, SplitOn(dottedKey, "."))

\* mergeObjs replacing a sequence whatever the length of the source
mergeArraysReplace(old, v) == v

\* what mergeObjs leaves in target[k] when source[k] = v and both are arrays
mergeArrays(old, v) ==
    IF Len(v.items) = 1 /\ isUndefOrNull(v.items[1]) THEN old
    ELSE IF Len(v.items) = 1 /\ ~IsUndef(v.items[1]) THEN SetProp(old, <<"0">>, v.items[1])
    ELSE v

RECURSIVE mergeObjs(_, _)

\* what one turn of the loop of mergeObjs leaves in target[k]: old is target[k]
\* before it, v is source[k]
mergedValue(old, v) ==
    IF IsObj(v) /\ IsObj(old) THEN mergeObjs(old, v)
    ELSE IF IsArr(v) /\ IsArr(old) THEN mergeArrays(old, v)
    ELSE v

\* the for loop of mergeObjs from the i-th entry of source on
RECURSIVE MergeEntries(_, _, _)
MergeEntries(target, source, i) ==
    IF i > Len(source.keys) THEN target
    ELSE MergeEntries(SetProp(target, source.keys[i],
                              mergedValue(GetProp(target, source.keys[i]), source.vals[i])),
                      source, i + 1)

mergeObjs(target, source) ==
    IF ~IsObj(source) THEN source ELSE MergeEntries(target, source, 1)

RECURSIVE deepClone(_)
deepClone(x) ==
    IF IsArr(x) THEN Arr([i \in DOMAIN x.items |-> deepClone(x.items[i])])
    ELSE IF IsObj(x) THEN Obj(x.keys, [i \in DOMAIN x.vals |-> deepClone(x.vals[i])])
    ELSE x

----------------------------------------------------------------------------
(* The two passes: resolveFallbacks, resolveReferences *)

\* the depth of nested calls the engine's call stack has room for; a deeper
\* recursion ends the parse with a RangeError
StackLimit == 12

NoError == "none"
RangeError == "RangeError"
MissingRequiredInclude == "MissingRequiredInclude"
Hang == "Hang"

\* node.__type === "FALLBACK"
IsFallbackNode(node) == IsObj(node) /\ GetProp(node, TypeKey) = FallbackTag
\* node.__type === "REF" && node.path
IsRefNode(node) ==
    IsObj(node) /\ GetProp(node, TypeKey) = RefTag /\ Truthy(GetProp(node, PathKey))

\* the choice resolveFallbacks makes between the two resolved operands
chooseFallback(mainVal, fbVal) == IF isUndefOrNull(mainVal) THEN fbVal ELSE mainVal

RECURSIVE resolveFallbacks(_)
resolveFallbacks(node) ==
    IF IsArr(node)
    THEN [node EXCEPT !.items = [i \in DOMAIN node.items |-> resolveFallbacks(node.items[i])]]
    ELSE IF IsObj(node)
    THEN IF IsFallbackNode(node)
         THEN chooseFallback(resolveFallbacks(GetProp(node, MainKey)),
                             resolveFallbacks(GetProp(node, FallbackKey)))
         ELSE [node EXCEPT !.vals = [i \in DOMAIN node.vals |-> resolveFallbacks(node.vals[i])]]
    ELSE node

(***************************************************************************)
(* resolveReferences walks the tree in place.  An object of the tree is    *)
(* named by the place the walk meets it: id is the path of keys from the   *)
(* root for a node of the document (inRoot), and the id of the reference   *)
(* followed by CloneMark and the path inside the copy for a node of a      *)
(* deepClone.  Each deepClone allocates new objects, so no two places name *)
(* one object.  st carries what the walk mutates or can end with: the root *)
(* as it stands (root), the WeakSet (visited) and the error (err); and, to *)
(* tell a copy from the object it was copied from, for every assignment    *)
(* node[k] = value of a mapping or sequence the pair <<place assigned to,  *)
(* name of the object assigned>> (held).  What the walk returns carries    *)
(* the name of the object returned (at).                                   *)
(***************************************************************************)
CloneMark == Chars("*")
IndexKey(i) == NatToText(i - 1)

RECURSIVE PutAt(_, _, _)
\* node[k] = v for the node at path id of root
PutAt(root, id, v) ==
    IF Len(id) = 1 THEN SetProp(root, id[1], v)
    ELSE SetProp(root, id[1], PutAt(GetProp(root, id[1]), Tail(id), v))

\* visited.has(node)
visitedHas(visited, id) == id \in visited

RECURSIVE resolveReferences(_, _, _, _, _)
RECURSIVE ResolveChildren(_, _, _, _, _, _, _)

\* node[k] = r.val, where r is what resolveReferences returned for node[k]; for a
\* node of the document the root sees the assignment too
storeChild(node, k, idk, inRoot, r) ==
    [node |-> SetProp(node, k, r.val),
     st |-> IF r.st.err # NoError THEN r.st
            ELSE [r.st EXCEPT !.root = IF inRoot THEN PutAt(@, idk, r.val) ELSE @,
                              !.held = IF IsArr(r.val) \/ IsObj(r.val)
                                       THEN @ \cup {<<idk, r.at>>} ELSE @]]

\* the rest of the loop after the i-th child was stored
ResolveRest(stored, ks, i, id, inRoot, depth) ==
    ResolveChildren(stored.st, stored.node, ks, i, id, inRoot, depth)

\* the for loops of resolveReferences: node[k] = resolveReferences(root, node[k])
\* for the keys (or indexes) ks from the i-th on
ResolveChildren(st, node, ks, i, id, inRoot, depth) ==
    IF i > Len(ks) \/ st.err # NoError THEN [val |-> node, at |-> id, st |-> st]
    ELSE ResolveRest(storeChild(node, ks[i], Append(id, ks[i]), inRoot,
                                resolveReferences(st, GetProp(node, ks[i]), Append(id, ks[i]),
                                                  inRoot, depth + 1)),
                     ks, i + 1, id, inRoot, depth)

\* the REF branch with the target itself, not a copy of it, resolved and returned
followReferenceShared(st, refPath, val, id, depth) ==
    IF IsUndef(val) THEN [val |-> Undef, at |-> id, st |-> st]
    ELSE resolveReferences(st, val, refPath, TRUE, depth + 1)

\* the REF branch once val = getVal(configRoot, node.path) is known, refPath being
\* the keys of node.path
followReference(st, refPath, val, id, depth) ==
    IF IsUndef(val) THEN [val |-> Undef, at |-> id, st |-> st]
    ELSE resolveReferences(st, deepClone(val), Append(id, CloneMark), FALSE, depth + 1)

\* an object the walk has not met before, after visited.add(node)
resolveObject(st, node, id, inRoot, depth) ==
    IF IsRefNode(node)
    THEN followReference(st, SplitOn(GetProp(node, PathKey).s, "."),
                         getVal(st.root, GetProp(node, PathKey).s), id, depth)
    ELSE ResolveChildren(st, node, node.keys, 1, id, inRoot, depth)

resolveReferences(st, node, id, inRoot, depth) ==
    IF depth > StackLimit
    THEN [val |-> node, at |-> id, st |-> [st EXCEPT !.err = RangeError]]
    ELSE IF IsArr(node)
    THEN ResolveChildren(st, node, [i \in DOMAIN node.items |-> IndexKey(i)], 1,
                         id, inRoot, depth)
    ELSE IF IsObj(node)
    THEN IF visitedHas(st.visited, id) THEN [val |-> node, at |-> id, st |-> st]
         ELSE resolveObject([st EXCEPT !.visited = @ \cup {id}], node, id, inRoot, depth)
    ELSE [val |-> node, at |-> id, st |-> st]

----------------------------------------------------------------------------
(* String(x), used where parseMultipleBlocks joins its tokens *)

NumToText(num) ==
    LET ds == NatToText(num.mant)
        padded == IF Len(ds) <= num.scale
                  THEN [i \in 1..(num.scale + 1 - Len(ds)) |-> "0"] \o ds
                  ELSE ds
        whole == Slice(padded, 1, Len(padded) - num.scale)
        frac == Slice(padded, Len(padded) - num.scale + 1, Len(padded))
    IN  (IF num.neg THEN <<"-">> ELSE <<>>)
        \o whole \o (IF num.scale > 0 THEN <<".">> \o frac ELSE <<>>)

RECURSIVE ToJsString(_)
ToJsString(x) ==
    CASE x.t = "undef" -> Chars("undefined")
      [] x.t = "null" -> Chars("null")
      [] x.t = "bool" -> IF x.b THEN Chars("true") ELSE Chars("false")
      [] x.t = "num" -> NumToText(x)
      [] x.t = "str" -> x.s
      [] x.t = "arr" ->
            Join([i \in DOMAIN x.items |->
                    IF isUndefOrNull(x.items[i]) THEN <<>> ELSE ToJsString(x.items[i])],
                 <<",">>)
      [] OTHER -> Chars("[object Object]")

----------------------------------------------------------------------------
(* Lines: preProcessHocon and the patterns of parseBlock and handleInclude *)

\* the inner while of the triple-quoted branch: lines absorbed from index i on
RECURSIVE AbsorbTriple(_, _, _, _)
AbsorbTriple(rawLines, i, fullLine, searching) ==
    IF searching /\ i <= Len(rawLines)
    THEN AbsorbTriple(rawLines, i + 1, fullLine \o Chars("\\n") \o rawLines[i],
                      ~Includes(rawLines[i], TripleQuote))
    ELSE [line |-> fullLine, next |-> i]

\* the inner while of the multi-line array branch
RECURSIVE AbsorbArray(_, _, _, _)
AbsorbArray(rawLines, i, merged, bracketFound) ==
    IF ~bracketFound /\ i <= Len(rawLines)
    THEN AbsorbArray(rawLines, i + 1, merged \o rawLines[i], Includes(rawLines[i], <<"]">>))
    ELSE [line |-> merged, next |-> i]

\* indexOf('"""', from) === -1, from 1-based
NoTripleFrom(line, from) == \A j \in from..Len(line) : ~OccursAt(line, TripleQuote, j)

RECURSIVE PreProcessLoop(_, _, _)
PreProcessLoop(rawLines, i, out) ==
    IF i > Len(rawLines) THEN out
    ELSE LET line == rawLines[i]
         IN  IF Includes(line, TripleQuote)
             THEN LET tripleStart == Min({j \in 1..Len(line) : OccursAt(line, TripleQuote, j)})
                      a == AbsorbTriple(rawLines, i + 1, line, NoTripleFrom(line, tripleStart + 3))
                  IN  PreProcessLoop(rawLines, a.next, Append(out, a.line))
             ELSE IF Includes(line, <<"[">>) /\ ~EndsWith(Trim(line), <<"]">>)
             THEN LET a == AbsorbArray(rawLines, i + 1, line, Includes(line, <<"]">>))
                  IN  PreProcessLoop(rawLines, a.next, Append(out, a.line))
             ELSE PreProcessLoop(rawLines, i + 1, Append(out, line))

preProcessHocon(content) == PreProcessLoop(SplitOn(content, "\n"), 1, <<>>)

IsComment(l) == StartsWith(l, Chars("#")) \/ StartsWith(l, Chars("//"))

\* lines.map(trim).filter(l => l && !l.startsWith("#") && !l.startsWith("//"))
RECURSIVE TrimAndFilter(_)
TrimAndFilter(ls) ==
    IF ls = <<>> THEN <<>>
    ELSE LET l == Trim(ls[1])
         IN  IF l = <<>> \/ IsComment(l) THEN TrimAndFilter(Tail(ls))
             ELSE <<l>> \o TrimAndFilter(Tail(ls))

logicalLines(content) == TrimAndFilter(preProcessHocon(content))

NoMatch == [ok |-> FALSE, key |-> <<>>, val |-> <<>>]
Matched(key, val) == [ok |-> TRUE, key |-> key, val |-> val]

NoAssignChar(s) == \A i \in DOMAIN s : s[i] \notin {"=", ":"}

\* /^([^=:]+?)\{\s*(.*?)\}\s*$/ on a trimmed line: the key is the shortest prefix
\* free of = and : that a { follows, and the line ends with }
matchSingleLineBlock(line) ==
    LET ns == {n \in 1..(Len(line) - 2) :
                  line[n + 1] = "{" /\ NoAssignChar(SubSeq(line, 1, n))}
    IN  IF ns # {} /\ line[Len(line)] = "}"
        THEN Matched(Trim(SubSeq(line, 1, Min(ns))), Trim(Slice(line, Min(ns) + 2, Len(line) - 1)))
        ELSE NoMatch

\* /^([^=:]+?)\{\s*$/ on a trimmed line
matchBlockOpener(line) ==
    IF Len(line) >= 2 /\ line[Len(line)] = "{" /\ NoAssignChar(SubSeq(line, 1, Len(line) - 1))
    THEN Matched(Trim(SubSeq(line, 1, Len(line) - 1)), <<>>)
    ELSE NoMatch

\* /^(.+?)\s*\+=\s*(.+)$/ on a trimmed line: the first += with text on both sides
matchPlusAssign(line) ==
    LET ps == {p \in 2..(Len(line) - 2) : line[p] = "+" /\ line[p + 1] = "="}
    IN  IF ps # {}
        THEN Matched(Trim(SubSeq(line, 1, Min(ps) - 1)), Trim(Slice(line, Min(ps) + 2, Len(line))))
        ELSE NoMatch

\* /^(.+?)\s*[=:]\s*(.+)$/ on a trimmed line: the first = or : with text on both sides
matchAssign(line) ==
    LET ps == {p \in 2..(Len(line) - 1) : line[p] \in {"=", ":"}}
    IN  IF ps # {}
        THEN Matched(Trim(SubSeq(line, 1, Min(ps) - 1)), Trim(Slice(line, Min(ps) + 1, Len(line))))
        ELSE NoMatch

IncludeWord == Chars("include")
\* what follows "include" and its white space
IncludeRest(line) == Trim(Slice(line, Len(IncludeWord) + 1, Len(line)))

\* /^include\s+required\("(.+)"\)$/
matchRequiredInclude(line) ==
    LET rest == IncludeRest(line)
        open == Chars("required(\"")
        close == Chars("\")")
    IN  IF StartsWith(rest, open) /\ EndsWith(rest, close)
           /\ Len(rest) > Len(open) + Len(close)
        THEN Matched(<<>>, Slice(rest, Len(open) + 1, Len(rest) - Len(close)))
        ELSE NoMatch

\* /^include\s+"(.+)"$/
matchOptionalInclude(line) ==
    LET rest == IncludeRest(line)
    IN  IF StartsWith(rest, DQ) /\ EndsWith(rest, DQ) /\ Len(rest) > 2
        THEN Matched(<<>>, Slice(rest, 2, Len(rest) - 1))
        ELSE NoMatch

----------------------------------------------------------------------------
(* The parser: parseString, parseBlock, handleInclude, assignValue,         *)
(* plusAssignValue, parseInlineValue, parseMultipleBlocks, parseSingleToken *)
(*                                                                          *)
(* cx is what a parse reads from outside: cx.env, the environment (names   *)
(* to strings), and cx.files, the directory of the document (file names to *)
(* contents).  ov is options.overrides as the sequence of its entries.     *)
(* A result is [val, err]: err is NoError, or the exception that ended it. *)
(***************************************************************************)

Ok(v) == [val |-> v, err |-> NoError]
Fail(e) == [val |-> Undef, err |-> e]

\* for (const [k, v] of Object.entries(overrides)) setVal(result, k, v)
RECURSIVE applyOverrides(_, _)
applyOverrides(result, ov) ==
    IF ov = <<>> THEN result
    ELSE applyOverrides(setVal(result, ov[1][1], ov[1][2]), Tail(ov))

\* [undefined] or [null] against a non-empty array: the "partial array" test
IsPartialArraySkip(existingVal, newVal) ==
    /\ IsArr(newVal) /\ Len(newVal.items) = 1 /\ isUndefOrNull(newVal.items[1])
    /\ IsArr(existingVal) /\ Len(existingVal.items) > 0

\* assignValue skipping a reference too when the key holds a value
assignDecidedSkippingReference(obj, dottedKey, existingVal, newVal) ==
    IF (isUndefOrNull(newVal) \/ IsRefNode(newVal)) /\ ~isUndefOrNull(existingVal) THEN obj
    ELSE IF IsPartialArraySkip(existingVal, newVal) THEN obj
    ELSE setVal(obj, dottedKey, newVal)

\* assignValue patching a sequence as mergeObjs does
assignDecidedPatching(obj, dottedKey, existingVal, newVal) ==
    IF isUndefOrNull(newVal) /\ ~isUndefOrNull(existingVal) THEN obj
    ELSE IF IsArr(newVal) /\ IsArr(existingVal)
    THEN setVal(obj, dottedKey, mergeArrays(existingVal, newVal))
    ELSE setVal(obj, dottedKey, newVal)

\* assignValue without its two skip tests
assignDecidedNoSkip(obj, dottedKey, existingVal, newVal) == setVal(obj, dottedKey, newVal)

\* the decision of assignValue once newVal and existingVal are known
assignDecided(obj, dottedKey, existingVal, newVal) ==
    IF isUndefOrNull(newVal) /\ ~isUndefOrNull(existingVal) THEN obj
    ELSE IF IsPartialArraySkip(existingVal, newVal) THEN obj
    ELSE setVal(obj, dottedKey, newVal)

\* existingVal.concat(newVal)
concat(a, b) == Arr(a.items \o b.items)

\* the value plusAssignValue hands to setVal
appended(existingVal, newVal) ==
    IF IsUndef(existingVal) THEN newVal
    ELSE IF IsArr(newVal) /\ IsArr(existingVal) THEN concat(existingVal, newVal)
    ELSE IF IsStr(newVal) /\ IsStr(existingVal) THEN Str(existingVal.s \o newVal.s)
    ELSE newVal

\* plusAssignValue overwriting where it should append
plusAssignDecidedOverwrite(obj, dottedKey, existingVal, newVal) ==
    IF isUndefOrNull(newVal) /\ ~IsUndef(existingVal) THEN obj
    ELSE IF IsPartialArraySkip(existingVal, newVal) THEN obj
    ELSE setVal(obj, dottedKey, newVal)

\* the decision of plusAssignValue once newVal and existingVal are known; two
\* objects are merged in place, where existingVal sits
plusAssignDecided(obj, dottedKey, existingVal, newVal) ==
    IF IsUndef(existingVal) THEN setVal(obj, dottedKey, newVal)
    ELSE IF isUndefOrNull(newVal) THEN obj
    ELSE IF IsPartialArraySkip(existingVal, newVal) THEN obj
    ELSE IF IsObj(newVal) /\ IsObj(existingVal)
    THEN PutAt(obj, SplitOn(dottedKey, "."), mergeObjs(existingVal, newVal))
    ELSE setVal(obj, dottedKey, appended(existingVal, newVal))

\* parsedList.reduce((acc, arr) => acc.concat(arr), [])
RECURSIVE ConcatAll(_)
ConcatAll(list) == IF list = <<>> THEN <<>> ELSE list[1].items \o ConcatAll(Tail(list))

\* parsedList.reduce((acc, obj) => mergeObjs(acc, obj), {})
RECURSIVE MergeAll(_, _)
MergeAll(acc, list) == IF list = <<>> THEN acc ELSE MergeAll(mergeObjs(acc, list[1]), Tail(list))

\* what parseMultipleBlocks makes of the parsed tokens when they are no fallback
combineParsed(parsedList) ==
    IF \A i \in DOMAIN parsedList : IsArr(parsedList[i]) THEN Arr(ConcatAll(parsedList))
    ELSE IF \A i \in DOMAIN parsedList : IsObj(parsedList[i]) THEN MergeAll(EmptyObj, parsedList)
    ELSE Str(Join([i \in DOMAIN parsedList |-> ToJsString(parsedList[i])], <<" ">>))

\* tokens.length === 3 && tokens[1].toLowerCase() === "or"
IsFallbackTokens(tokens) == Len(tokens) = 3 /\ ToLower(tokens[2]) = Chars("or")

\* braceBlocks.length + bracketBlocks.length > 1
HasMultipleBlocks(val) ==
    Len(extractTopLevelBlocks(val, "{", "}")) + Len(extractTopLevelBlocks(val, "[", "]")) > 1

RECURSIVE parseString(_, _, _, _)
RECURSIVE parseBlock(_, _, _, _, _, _)
RECURSIVE parseInlineValue(_, _, _)
RECURSIVE ParseTokens(_, _, _, _, _)

\* the same three returns end parseInlineValue and make up parseSingleToken
parseSingleToken(cx, token, depth) ==
    IF StartsWith(token, <<"[">>) /\ EndsWith(token, <<"]">>)
    THEN Ok(parseInlineArray(cx.env, token))
    ELSE IF StartsWith(token, <<"{">>) /\ EndsWith(token, <<"}">>)
    THEN parseString(cx, Trim(Slice(token, 2, Len(token) - 1)), <<>>, depth + 1)
    ELSE Ok(resolveEnvOrRef(cx.env, token))

\* tokens.map(t => parseSingleToken(t)) from the i-th token on; r is the i-th result
ParseNext(cx, tokens, i, parsed, depth, r) ==
    IF r.err # NoError THEN Fail(r.err)
    ELSE ParseTokens(cx, tokens, i + 1, Append(parsed, r.val), depth)

ParseTokens(cx, tokens, i, parsed, depth) ==
    IF i > Len(tokens) THEN Ok(parsed)
    ELSE ParseNext(cx, tokens, i, parsed, depth, parseSingleToken(cx, tokens[i], depth))

\* the tokens parseMultipleBlocks parses: the two operands of X or Y, else all
tokensToParse(tokens) ==
    IF IsFallbackTokens(tokens) THEN <<tokens[1], tokens[3]>> ELSE tokens

\* what parseMultipleBlocks returns once its tokens are parsed into r
blocksResult(isFallback, r) ==
    IF r.err # NoError THEN r
    ELSE IF isFallback THEN Ok(FallbackNode(r.val[1], r.val[2]))
    ELSE Ok(combineParsed(r.val))

parseTokenized(cx, tk, depth) ==
    IF tk.hang THEN Fail(Hang)
    ELSE blocksResult(IsFallbackTokens(tk.tokens),
                      ParseTokens(cx, tokensToParse(tk.tokens), 1, <<>>, depth))

parseMultipleBlocks(cx, line, depth) == parseTokenized(cx, tokenizeLine(line), depth)

parseTrimmed(cx, val, depth) ==
    IF HasMultipleBlocks(val) THEN parseMultipleBlocks(cx, val, depth)
    ELSE parseSingleToken(cx, val, depth)

parseInlineValue(cx, rawVal, depth) == parseTrimmed(cx, Trim(rawVal), depth)

\* the include merged the other way round: what the including document holds wins
mergeIncludedUnder(parentObj, included) ==
    IF included.err # NoError THEN included ELSE Ok(mergeObjs(included.val, parentObj))

\* mergeObjs(parentObj, included)
mergeIncluded(parentObj, included) ==
    IF included.err # NoError THEN included ELSE Ok(mergeObjs(parentObj, included.val))

\* the lines of the included file parsed into parentObj as if written in its place
blockAsResult(b) == [val |-> b.obj, err |-> b.err]
includeFileInlined(cx, name, parentObj, ov, depth) ==
    blockAsResult(parseBlock(cx, logicalLines(cx.files[name]), 1, parentObj, ov, depth + 1))

\* parseFile(incPath, options), then mergeObjs(parentObj, included)
includeFile(cx, name, parentObj, ov, depth) ==
    mergeIncluded(parentObj, parseString(cx, cx.files[name], ov, depth + 1))

\* handleInclude treating a required include as an optional one
includeMatchedLenient(cx, req, opt, parentObj, ov, depth) ==
    IF (req.ok /\ req.val \in DOMAIN cx.files) \/ (~req.ok /\ opt.ok /\ opt.val \in DOMAIN cx.files)
    THEN mergeIncluded(parentObj,
                       parseString(cx, cx.files[IF req.ok THEN req.val ELSE opt.val], ov, depth + 1))
    ELSE Ok(parentObj)

\* handleInclude once its two patterns were tried: req and opt are the matches
includeMatched(cx, req, opt, parentObj, ov, depth) ==
    IF req.ok /\ req.val \notin DOMAIN cx.files THEN Fail(MissingRequiredInclude)
    ELSE IF req.ok \/ (opt.ok /\ opt.val \in DOMAIN cx.files)
    THEN includeFile(cx, IF req.ok THEN req.val ELSE opt.val, parentObj, ov, depth)
    ELSE Ok(parentObj)

handleInclude(cx, line, parentObj, ov, depth) ==
    includeMatched(cx, matchRequiredInclude(line), matchOptionalInclude(line),
                   parentObj, ov, depth)

BlockResult(idx, obj, err) == [idx |-> idx, obj |-> obj, err |-> err]

\* which branch of the loop of parseBlock a (trimmed) line takes
lineKind(line) ==
    IF StartsWith(line, <<"}">>) THEN "close"
    ELSE IF StartsWith(line, Chars("include ")) THEN "include"
    ELSE IF matchSingleLineBlock(line).ok THEN "single"
    ELSE IF matchBlockOpener(line).ok THEN "opener"
    ELSE IF matchPlusAssign(line).ok THEN "plus"
    ELSE IF matchAssign(line).ok THEN "assign"
    ELSE "skip"

\* assignValue after parseInlineValue returned r
assignParsed(obj, dottedKey, r) ==
    IF r.err # NoError THEN r
    ELSE Ok(assignDecided(obj, dottedKey, getVal(obj, dottedKey), r.val))

assignValue(cx, obj, dottedKey, rawVal, depth) ==
    assignParsed(obj, dottedKey, parseInlineValue(cx, rawVal, depth))

\* plusAssignValue after parseInlineValue returned r
plusAssignParsed(obj, dottedKey, r) ==
    IF r.err # NoError THEN r
    ELSE Ok(plusAssignDecided(obj, dottedKey, getVal(obj, dottedKey), r.val))

plusAssignValue(cx, obj, dottedKey, rawVal, depth) ==
    plusAssignParsed(obj, dottedKey, parseInlineValue(cx, rawVal, depth))

\* setVal(parentObj, key, childObj) with the block merged into a mapping the key holds
setChildMerging(parentObj, key, childObj) ==
    IF childObj.err # NoError THEN childObj
    ELSE IF IsObj(getVal(parentObj, key))
    THEN Ok(setVal(parentObj, key, mergeObjs(getVal(parentObj, key), childObj.val)))
    ELSE Ok(setVal(parentObj, key, childObj.val))

\* setVal(parentObj, key, childObj)
setChild(parentObj, key, childObj) ==
    IF childObj.err # NoError THEN childObj ELSE Ok(setVal(parentObj, key, childObj.val))

\* key { ... } on one line: the body is parsed as a document of its own; m is the match
singleLineMatched(cx, m, parentObj, ov, depth) ==
    setChild(parentObj, m.key, parseString(cx, m.val, ov, depth + 1))

singleLineBlock(cx, line, parentObj, ov, depth) ==
    singleLineMatched(cx, matchSingleLineBlock(line), parentObj, ov, depth)

\* the two assignment branches on their match m
assignMatched(cx, obj, m, depth) == assignValue(cx, obj, m.key, m.val, depth)
plusAssignMatched(cx, obj, m, depth) == plusAssignValue(cx, obj, m.key, m.val, depth)

\* one iteration of the loop of parseBlock on a line of the given kind that neither
\* opens nor closes a block: parentObj after it, or the exception it throws
lineEffect(cx, kind, line, parentObj, ov, depth) ==
    IF kind = "include" THEN handleInclude(cx, line, parentObj, ov, depth)
    ELSE IF kind = "single" THEN singleLineBlock(cx, line, parentObj, ov, depth)
    ELSE IF kind = "plus" THEN plusAssignMatched(cx, parentObj, matchPlusAssign(line), depth)
    ELSE IF kind = "assign" THEN assignMatched(cx, parentObj, matchAssign(line), depth)
    ELSE Ok(parentObj)

\* afterBlock with the cursor set back to the line before the closing line
afterBlockRewinding(lines, idx) ==
    IF idx <= Len(lines) /\ StartsWith(lines[idx], <<"}">>) THEN idx - 1 ELSE idx

\* the cursor after a nested parseBlock returned at idx: a closing line is consumed
afterBlock(lines, idx) ==
    IF idx <= Len(lines) /\ StartsWith(lines[idx], <<"}">>) THEN idx + 1 ELSE idx

\* the multi-line branch after parseBlock(childObj) returned child
closeChild(cx, lines, idx, parentObj, ov, depth, child) ==
    IF child.err # NoError THEN BlockResult(child.idx, parentObj, child.err)
    ELSE parseBlock(cx, lines, afterBlock(lines, child.idx),
                    setVal(parentObj, matchBlockOpener(lines[idx]).key, child.obj),
                    ov, depth)

\* currentIndex++; continue, unless the iteration threw
continueAfter(cx, lines, idx, parentObj, ov, depth, r) ==
    IF r.err # NoError THEN BlockResult(idx, parentObj, r.err)
    ELSE parseBlock(cx, lines, idx + 1, r.val, ov, depth)

\* one iteration of the while loop of parseBlock on a line of the given kind
parseLine(cx, lines, idx, kind, parentObj, ov, depth) ==
    IF kind = "close" THEN BlockResult(idx, parentObj, NoError)
    ELSE IF kind = "opener"
    THEN closeChild(cx, lines, idx, parentObj, ov, depth,
                    parseBlock(cx, lines, idx + 1, EmptyObj, ov, depth))
    ELSE continueAfter(cx, lines, idx, parentObj, ov, depth,
                       lineEffect(cx, kind, lines[idx], parentObj, ov, depth))

\* the while loop of parseBlock with the cursor (currentIndex + 1) at idx
parseBlock(cx, lines, idx, parentObj, ov, depth) ==
    IF idx > Len(lines) THEN BlockResult(idx, parentObj, NoError)
    ELSE parseLine(cx, lines, idx, lineKind(lines[idx]), parentObj, ov, depth)

\* what resolveReferences(result, result) leaves: the tree, or the exception
referencesResult(r) == IF r.st.err # NoError THEN Fail(r.st.err) ELSE Ok(r.val)

\* const visitedPaths = new WeakSet(); resolveReferences(result, result)
resolveFrom(root, depth) ==
    referencesResult(resolveReferences([root |-> root, visited |-> {}, held |-> {},
                                        err |-> NoError],
                                       root, <<>>, TRUE, depth))

\* the passes of parseString after parseBlock, on the tree it built
resolveAll(tree, ov, depth) == resolveFrom(resolveFallbacks(applyOverrides(tree, ov)), depth)

\* parseString after parseBlock(result) returned b
passesAfter(b, ov, depth) ==
    IF b.err # NoError THEN Fail(b.err) ELSE resolveAll(b.obj, ov, depth)

parseString(cx, content, ov, depth) ==
    IF depth > StackLimit THEN Fail(RangeError)
    ELSE passesAfter(parseBlock(cx, logicalLines(content), 1, EmptyObj, ov, depth), ov, depth)

----------------------------------------------------------------------------
(* parse(filePath, runtimeOptions): the overrides from the environment and *)
(* the command line.  A JavaScript map is kept as its entries <<key, value>> *)
(* in insertion order, which is the order of Object.entries for keys that  *)
(* are no array indexes.                                                    *)
(***************************************************************************)

\* map[key] = val
PutEntry(map, key, val) ==
    IF \E i \in DOMAIN map : map[i][1] = key
    THEN [i \in DOMAIN map |-> IF map[i][1] = key THEN <<key, val>> ELSE map[i]]
    ELSE Append(map, <<key, val>>)

\* key.replace(/_/g, ".")
ReplaceUnderscores(key) == [i \in DOMAIN key |-> IF key[i] = "_" THEN "." ELSE key[i]]

\* the key buildEnvMap gives an environment variable it keeps
envKey(key, prefix) == ReplaceUnderscores(Slice(key, Len(prefix) + 1, Len(key)))

RECURSIVE buildEnvLoop(_, _, _)
buildEnvLoop(entries, prefix, map) ==
    IF entries = <<>> THEN map
    ELSE buildEnvLoop(Tail(entries), prefix,
                      IF prefix # <<>> /\ ~StartsWith(entries[1][1], prefix) THEN map
                      ELSE PutEntry(map, envKey(entries[1][1], prefix), entries[1][2]))

buildEnvMap(envEntries, prefix) == buildEnvLoop(envEntries, prefix, <<>>)

\* String.prototype.indexOf for one character, counted from 0; -1 when absent
IndexOf(str, c) ==
    IF \E i \in DOMAIN str : str[i] = c THEN Min({i \in DOMAIN str : str[i] = c}) - 1 ELSE -1

RECURSIVE buildArgLoop(_, _)
buildArgLoop(args, map) ==
    IF args = <<>> THEN map
    ELSE buildArgLoop(Tail(args),
                      IF ~StartsWith(args[1], Chars("--")) \/ IndexOf(args[1], "=") < 2 THEN map
                      ELSE PutEntry(map, Slice(args[1], 3, IndexOf(args[1], "=")),
                                    Str(Slice(args[1], IndexOf(args[1], "=") + 2, Len(args[1])))))

buildArgMap(args) == buildArgLoop(args, <<>>)

\* { ...envMap, ...argMap }
RECURSIVE spread(_, _)
spread(map, more) ==
    IF more = <<>> THEN map ELSE spread(PutEntry(map, more[1][1], more[1][2]), Tail(more))

\* parse up to its call of parseFile: runtimeOptions.overrides is not read
finalOverrides(envEntries, argv, runtimeOptions) ==
    spread(IF runtimeOptions.parseEnv THEN buildEnvMap(envEntries, runtimeOptions.envPrefix)
           ELSE <<>>,
           IF runtimeOptions.parseArgs THEN buildArgMap(argv) ELSE <<>>)

\* parseFile(filePath, options) of a file that exists
parseFile(cx, filePath, ov) == parseString(cx, cx.files[filePath], ov, 0)

parse(cx, filePath, runtimeOptions, envEntries, argv) ==
    parseFile(cx, filePath, finalOverrides(envEntries, argv, runtimeOptions))

----------------------------------------------------------------------------
(* One call of parseString(content, baseDir, {overrides}) as a state       *)
(* machine: the preprocessor, the loop of parseBlock line by line (stack   *)
(* holds the parseBlock calls waiting for a nested block to end), then the *)
(* overrides and the two passes.  Nested documents (an included file, the  *)
(* body of a one-line block, an inline { }) are parsed inside one step.     *)
(***************************************************************************)

VARIABLES
    content,    \* the text given to parseString
    env,        \* process.env
    overrides,  \* options.overrides, as its entries in order
    pc,         \* where the call stands
    lines,      \* the logical lines, trimmed, comments dropped
    cursor,     \* currentIndex + 1
    stack,      \* the waiting parseBlock calls: [obj, key], innermost first
    tree,       \* the object under construction: parentObj, then result
    error,      \* the exception that ended the call, or NoError
    unit        \* the arguments and result of a function applied on its own

vars == <<content, env, overrides, pc, lines, cursor, stack, tree, error, unit>>

\* the number of fragments a document is made of, at most
MaxFrags == 2

EnvName == Chars("E")

\* the files next to the document
Files ==
    (Chars("f.conf") :> Chars("b = 7\nd = ${b}\ne = ${a}"))
    @@ (Chars("g.conf") :> Chars("include required(\"m.conf\")"))
    @@ (Chars("base.conf") :> Chars("server.ports = [8080, 9090, 10000]"))
    @@ (Chars("b.conf") :> Chars("k = \"B\"\nkb = 1\nserver.ports = [7]\ninclude \"c.conf\""))
    @@ (Chars("c.conf") :> Chars("kc = 1"))

FragPool ==
    { Chars("a = 1"),
      Chars("a = ${a}"),
      Chars("a = ${b}"),
      Chars("b = ${a}"),
      Chars("b = ${?E}"),
      Chars("b = ?E"),
      Chars("b = \"d\""),
      Chars("b = [1, 2]"),
      Chars("b += [${?E}]"),
      Chars("b += [3]"),
      Chars("b = ${?E} or \"fb\""),
      Chars("a = ?E or [${b}]"),
      Chars("b.x = ${a}"),
      Chars("c {\nx = ${c}\n}"),
      Chars("c { x = ${a} }"),
      Chars("include required(\"m.conf\")"),
      Chars("include \"m.conf\""),
      Chars("include \"f.conf\""),
      Chars("include \"g.conf\""),
      Chars("junk") }

Docs ==
    {Join(fs, <<"\n">>) : fs \in UNION {[1..n -> FragPool] : n \in 0..MaxFrags}}

Envs ==
    {<<>>} \cup {[n \in {EnvName} |-> Str(t)] : t \in {Chars("9"), Chars("null")}}

OverridePool == {<<>>, << <<Chars("a.x"), Str(Chars("o"))>> >>}

Cx == [env |-> env, files |-> Files]

NoUnit == [fn |-> "none"]

Init ==
    /\ content \in Docs
    /\ env \in Envs
    /\ overrides \in OverridePool
    /\ pc = "start"
    /\ lines = <<>>
    /\ cursor = 1
    /\ stack = <<>>
    /\ tree = EmptyObj
    /\ error = NoError
    /\ unit = NoUnit

Inputs == <<content, env, overrides, unit>>

Preprocess ==
    /\ pc = "start"
    /\ lines' = logicalLines(content)
    /\ pc' = "blocks"
    /\ UNCHANGED <<Inputs, cursor, stack, tree, error>>

AtLine(kind) == pc = "blocks" /\ cursor <= Len(lines) /\ lineKind(lines[cursor]) = kind

\* an iteration that leaves r: the exception ends the call, else the cursor advances
Iteration(r) ==
    /\ IF r.err # NoError
       THEN pc' = "error" /\ error' = r.err /\ UNCHANGED <<tree, cursor>>
       ELSE pc' = pc /\ error' = error /\ tree' = r.val /\ cursor' = cursor + 1
    /\ UNCHANGED <<Inputs, lines, stack>>

Include == AtLine("include") /\ Iteration(handleInclude(Cx, lines[cursor], tree, overrides, 0))

SingleLineBlock ==
    AtLine("single") /\ Iteration(singleLineBlock(Cx, lines[cursor], tree, overrides, 0))

PlusAssign ==
    /\ AtLine("plus")
    /\ Iteration(plusAssignMatched(Cx, tree, matchPlusAssign(lines[cursor]), 0))

Assign ==
    /\ AtLine("assign")
    /\ Iteration(assignMatched(Cx, tree, matchAssign(lines[cursor]), 0))

SkipLine == AtLine("skip") /\ Iteration(Ok(tree))

\* key { : parseBlock calls itself on a fresh childObj
OpenBlock ==
    /\ AtLine("opener")
    /\ stack' = <<[obj |-> tree, key |-> matchBlockOpener(lines[cursor]).key]>> \o stack
    /\ tree' = EmptyObj
    /\ cursor' = cursor + 1
    /\ UNCHANGED <<Inputs, pc, lines, error>>

\* the loop of parseBlock ends: no line is left, or the line starts with }
AtBlockEnd == IF cursor > Len(lines) THEN TRUE ELSE lineKind(lines[cursor]) = "close"

\* the nested parseBlock returns to its caller, which consumes a closing line
ReturnFromBlock ==
    /\ pc = "blocks"
    /\ stack # <<>>
    /\ AtBlockEnd
    /\ tree' = setVal(stack[1].obj, stack[1].key, tree)
    /\ stack' = Tail(stack)
    /\ cursor' = afterBlock(lines, cursor)
    /\ UNCHANGED <<Inputs, pc, lines, error>>

\* parseBlock(result) going on after a } outside any block
BlocksDoneSkipping ==
    /\ pc = "blocks"
    /\ stack = <<>>
    /\ AtBlockEnd
    /\ IF cursor > Len(lines) THEN pc' = "overrides" /\ cursor' = cursor
       ELSE pc' = pc /\ cursor' = cursor + 1
    /\ UNCHANGED <<Inputs, lines, stack, tree, error>>

\* parseBlock(result) returns: at the end of the lines, or at a } outside any block
BlocksDone ==
    /\ pc = "blocks"
    /\ stack = <<>>
    /\ AtBlockEnd
    /\ pc' = "overrides"
    /\ UNCHANGED <<Inputs, lines, cursor, stack, tree, error>>

ApplyOverrides ==
    /\ pc = "overrides"
    /\ tree' = applyOverrides(tree, overrides)
    /\ pc' = "fallbacks"
    /\ UNCHANGED <<Inputs, lines, cursor, stack, error>>

ResolveFallbacks ==
    /\ pc = "fallbacks"
    /\ tree' = resolveFallbacks(tree)
    /\ pc' = "references"
    /\ UNCHANGED <<Inputs, lines, cursor, stack, error>>

\* parseString returns result, unless the pass threw
Return(r) ==
    /\ IF r.err # NoError
       THEN pc' = "error" /\ error' = r.err /\ tree' = tree
       ELSE pc' = "done" /\ error' = error /\ tree' = r.val
    /\ UNCHANGED <<Inputs, lines, cursor, stack>>

ResolveReferences == pc = "references" /\ Return(resolveFrom(tree, 0))

Next ==
    \/ Preprocess
    \/ Include
    \/ SingleLineBlock
    \/ PlusAssign
    \/ Assign
    \/ SkipLine
    \/ OpenBlock
    \/ ReturnFromBlock
    \/ BlocksDone
    \/ ApplyOverrides
    \/ ResolveFallbacks
    \/ ResolveReferences

Spec == Init /\ [][Next]_vars

----------------------------------------------------------------------------
(* One value: the documents  b = 7 / c = <value>  through the same steps *)

\* the length of the values written from ValueAlphabet, at most
MaxTextLen == 3

ValueAlphabet == {"2", "5", "0", ".", "-"}
AlphabetTexts == UNION {[1..n -> ValueAlphabet] : n \in 1..MaxTextLen}
LookupTexts == {Chars("${?E}"), Chars("?E")}
RefTexts == {Chars("${b}")}
WordTexts ==
    { Chars("true"), Chars("TRUE"), Chars("tRue"), Chars("false"), Chars("False"),
      Chars("null"), Chars("NULL"), Chars("truth"), Chars("nul"), Chars("+2.5"),
      Chars("+2.0"), Chars("2e5"), Chars("2.5.0") }
ValueTexts == AlphabetTexts \cup WordTexts \cup LookupTexts \cup RefTexts
Quotes == {<<>>, DQ, SQ}
KeyC == Chars("c")
ValueDoc(q, t) == Chars("b = 7\nc = ") \o q \o t \o q

InitValue ==
    /\ unit \in [fn : {"value"}, quote : Quotes, text : ValueTexts]
    /\ content = ValueDoc(unit.quote, unit.text)
    /\ env \in Envs
    /\ overrides = <<>>
    /\ pc = "start"
    /\ lines = <<>>
    /\ cursor = 1
    /\ stack = <<>>
    /\ tree = EmptyObj
    /\ error = NoError

NextValue ==
    \/ Preprocess
    \/ Assign
    \/ BlocksDone
    \/ ApplyOverrides
    \/ ResolveFallbacks
    \/ ResolveReferences

SpecValue == InitValue /\ [][NextValue]_vars

----------------------------------------------------------------------------
(* One merge: mergeObjs(target, source) on small trees *)

\* the length of the sequences merged, at most
MaxItems == 2

KeyX == Chars("x")
KeyY == Chars("y")
MergeItems == {Num(1), Num(9), Null, Undef}
MergeArrs == {Arr(items) : items \in UNION {[1..n -> MergeItems] : n \in 0..MaxItems}}
MergeScalars == {Num(1), Str(Chars("s")), Null}
MergeObjsPool ==
    {EmptyObj, Obj(<<KeyY>>, <<Num(2)>>)}
    \cup {Obj(<<KeyX>>, <<v>>) : v \in {Num(1), Arr(<<Num(1), Num(2)>>), Arr(<<Num(9)>>)}}
MergeVals == MergeScalars \cup MergeArrs \cup MergeObjsPool
MergeTargets ==
    {Obj(<<Chars("b")>>, <<Num(5)>>)}
    \cup {Obj(<<Chars("a"), Chars("b")>>, <<v, Num(5)>>) : v \in MergeVals}
MergeSources ==
    {EmptyObj} \cup {Obj(<<Chars("a")>>, <<v>>) : v \in MergeVals}
    \cup {Obj(<<Chars("c"), Chars("a")>>, <<Num(3), v>>) : v \in MergeObjsPool}

InitMerge ==
    /\ unit \in [fn : {"mergeObjs"}, target : MergeTargets, source : MergeSources,
                  out : {Undef}]
    /\ pc = "merge"
    /\ content = <<>>
    /\ env = <<>>
    /\ overrides = <<>>
    /\ lines = <<>>
    /\ cursor = 1
    /\ stack = <<>>
    /\ tree = EmptyObj
    /\ error = NoError

\* mergeObjs(target, source): target as the call leaves it
Merge ==
    /\ pc = "merge"
    /\ unit' = [unit EXCEPT !.out = mergeObjs(unit.target, unit.source)]
    /\ pc' = "merged"
    /\ UNCHANGED <<content, env, overrides, lines, cursor, stack, tree, error>>

NextMerge == Merge

SpecMerge == InitMerge /\ [][NextMerge]_vars

----------------------------------------------------------------------------
(* Overrides and references: documents of assignments, through the same steps *)

OverrideFrags ==
    { Chars("a = 1"),
      Chars("a = ${c}"),
      Chars("a.x = 5"),
      Chars("b = ${a.x}"),
      Chars("b = ${a}"),
      Chars("c = 2") }

OverrideDocs ==
    {Join(fs, <<"\n">>) : fs \in UNION {[1..n -> OverrideFrags] : n \in 0..MaxFrags}}

\* options.overrides: none, one entry, two entries of which one path is a prefix
OverrideLists ==
    { <<>>,
      << <<Chars("a.x"), Str(Chars("o"))>> >>,
      << <<Chars("a.x"), Str(Chars("o"))>>, <<Chars("a"), Str(Chars("p"))>> >>,
      << <<Chars("a"), Str(Chars("p"))>>, <<Chars("a.x"), Str(Chars("o"))>> >> }

InitOverride ==
    /\ content \in OverrideDocs
    /\ env = <<>>
    /\ overrides \in OverrideLists
    /\ pc = "start"
    /\ lines = <<>>
    /\ cursor = 1
    /\ stack = <<>>
    /\ tree = EmptyObj
    /\ error = NoError
    /\ unit = NoUnit

SpecOverride == InitOverride /\ [][NextValue]_vars

----------------------------------------------------------------------------
(* One call of parse(filePath, runtimeOptions) *)

\* the number of environment variables, and of command-line arguments, at most
MaxEnvVars == 2
MaxArgs == 2

EnvVarPool ==
    { <<Chars("a_b"), Str(Chars("e1"))>>,
      <<Chars("a"), Str(Chars("e2"))>>,
      <<Chars("P_a"), Str(Chars("e3"))>> }
\* process.env as its entries in order: no name twice
ProcessEnvs ==
    {es \in UNION {[1..n -> EnvVarPool] : n \in 0..MaxEnvVars} :
        \A i, j \in DOMAIN es : i # j => es[i] # es[j]}
ArgPool == {Chars("--a.b=x"), Chars("--a=y"), Chars("-v")}
Argvs == UNION {[1..n -> ArgPool] : n \in 0..MaxArgs}
CallerOverrides == {<<>>, << <<Chars("a.b"), Str(Chars("z"))>> >>}
RuntimeOptions ==
    [envPrefix : {<<>>, Chars("P_")}, parseEnv : BOOLEAN, parseArgs : BOOLEAN,
     overrides : CallerOverrides]
ParsedFile == Chars("main.conf")
FileTexts == {Chars("a.b = 1"), Chars("a = 1"), Chars("c = ${a.b}")}
EnvOf(entries) ==
    [n \in {entries[i][1] : i \in DOMAIN entries} |->
        (CHOOSE e \in Range(entries) : e[1] = n)[2]]
CxOf(u) == [env |-> EnvOf(u.env), files |-> (ParsedFile :> u.file) @@ Files]

InitParse ==
    /\ unit \in [fn : {"parse"}, env : ProcessEnvs, argv : Argvs, options : RuntimeOptions,
                  file : FileTexts, out : {Ok(Undef)}]
    /\ pc = "parse"
    /\ content = unit.file
    /\ env = EnvOf(unit.env)
    /\ overrides = <<>>
    /\ lines = <<>>
    /\ cursor = 1
    /\ stack = <<>>
    /\ tree = EmptyObj
    /\ error = NoError

\* parse(filePath, runtimeOptions): what it returns, or the exception
Parse ==
    /\ pc = "parse"
    /\ unit' = [unit EXCEPT
                   !.out = parse(CxOf(unit), ParsedFile, unit.options, unit.env, unit.argv)]
    /\ pc' = "parsed"
    /\ UNCHANGED <<content, env, overrides, lines, cursor, stack, tree, error>>

NextParse == Parse

SpecParse == InitParse /\ [][NextParse]_vars

----------------------------------------------------------------------------
(* Includes and assignments: documents of include and assignment lines *)

\* the number of lines of such a document, at most
MaxIncludeLines == 3

IncludeFrags ==
    { Chars("include \"base.conf\""),
      Chars("include \"b.conf\""),
      Chars("server.ports = [${?E}]"),
      Chars("server.ports = [1, 2]"),
      Chars("k = \"A\""),
      Chars("k = \"Z\"") }

IncludeDocs ==
    {Join(fs, <<"\n">>) : fs \in UNION {[1..n -> IncludeFrags] : n \in 0..MaxIncludeLines}}

InitInclude ==
    /\ content \in IncludeDocs
    /\ env \in Envs
    /\ overrides = <<>>
    /\ pc = "start"
    /\ lines = <<>>
    /\ cursor = 1
    /\ stack = <<>>
    /\ tree = EmptyObj
    /\ error = NoError
    /\ unit = NoUnit

NextInclude ==
    \/ Preprocess
    \/ Include
    \/ Assign
    \/ BlocksDone
    \/ ApplyOverrides
    \/ ResolveFallbacks
    \/ ResolveReferences

SpecInclude == InitInclude /\ [][NextInclude]_vars

----------------------------------------------------------------------------
(* One key assigned twice: the documents  k = <first> / k = <second> *)

TwiceTexts ==
    { Chars("\"first\""), Chars("\"second\""), Chars("5"), Chars("[8080, 9090]"),
      Chars("[10000]"), Chars("[null]"), Chars("[${?E}]"), Chars("{ x = 1 }") }
TwiceDoc(first, second) == Chars("k = ") \o first \o Chars("\nk = ") \o second

InitTwice ==
    /\ unit \in [fn : {"twice"}, first : TwiceTexts, second : TwiceTexts]
    /\ content = TwiceDoc(unit.first, unit.second)
    /\ env \in Envs
    /\ overrides = <<>>
    /\ pc = "start"
    /\ lines = <<>>
    /\ cursor = 1
    /\ stack = <<>>
    /\ tree = EmptyObj
    /\ error = NoError

SpecTwice == InitTwice /\ [][NextValue]_vars

----------------------------------------------------------------------------
(* Several calls of parseString in one process, one after the other: the    *)
(* first document, another one, the first document again.  The environment, *)
(* the files and the overrides are the same for every call.                 *)
(***************************************************************************)

\* which of the two documents each call parses
SessionOrder == <<1, 2, 1>>

\* the result a call starts from, a stale one
NewResultKept == tree

\* const result = {}
NewResult == EmptyObj

InitSession ==
    /\ unit \in [fn : {"session"}, docs : FragPool \X FragPool, outs : {<<>>}]
    /\ content = unit.docs[1]
    /\ env \in Envs
    /\ overrides \in OverridePool
    /\ pc = "start"
    /\ lines = <<>>
    /\ cursor = 1
    /\ stack = <<>>
    /\ tree = EmptyObj
    /\ error = NoError

\* what the call that ended hands its caller: the tree, or the exception
Outcome == IF pc = "done" THEN Ok(tree) ELSE Fail(error)

\* the caller keeps the outcome and calls parseString again, if a call is left
NextCall ==
    /\ unit.fn = "session"
    /\ pc \in {"done", "error"}
    /\ unit' = [unit EXCEPT !.outs = Append(unit.outs, Outcome)]
    /\ IF Len(unit.outs) + 1 = Len(SessionOrder)
       THEN pc' = "ended" /\ UNCHANGED <<content, lines, cursor, stack, tree, error>>
       ELSE /\ pc' = "start"
            /\ content' = unit.docs[SessionOrder[Len(unit.outs) + 2]]
            /\ lines' = <<>>
            /\ cursor' = 1
            /\ stack' = <<>>
            /\ tree' = NewResult
            /\ error' = NoError
    /\ UNCHANGED <<env, overrides>>

NextSession ==
    \/ Preprocess
    \/ Include
    \/ SingleLineBlock
    \/ PlusAssign
    \/ Assign
    \/ SkipLine
    \/ OpenBlock
    \/ ReturnFromBlock
    \/ BlocksDone
    \/ ApplyOverrides
    \/ ResolveFallbacks
    \/ ResolveReferences
    \/ NextCall

SpecSession == InitSession /\ [][NextSession]_vars

----------------------------------------------------------------------------
(* Blocks: documents of block openers, closing lines and assignments *)

\* the number of lines of such a document, at most
MaxBlockLines == 4

BlockFrags ==
    { Chars("c {"),
      Chars("}"),
      Chars("x = 1"),
      Chars("c.x = 1"),
      Chars("c { y = 2 }"),
      Chars("a = ${p}"),
      Chars("a = 5") }

BlockDocs ==
    {Join(fs, <<"\n">>) : fs \in UNION {[1..n -> BlockFrags] : n \in 0..MaxBlockLines}}

InitBlocks ==
    /\ content \in BlockDocs
    /\ env = <<>>
    /\ overrides \in OverridePool
    /\ pc = "start"
    /\ lines = <<>>
    /\ cursor = 1
    /\ stack = <<>>
    /\ tree = EmptyObj
    /\ error = NoError
    /\ unit = NoUnit

NextBlocks ==
    \/ Preprocess
    \/ SingleLineBlock
    \/ Assign
    \/ OpenBlock
    \/ ReturnFromBlock
    \/ BlocksDone
    \/ ApplyOverrides
    \/ ResolveFallbacks
    \/ ResolveReferences

SpecBlocks == InitBlocks /\ [][NextBlocks]_vars

----------------------------------------------------------------------------
(* Chains of references: d names a, a names b, b names c *)

\* the number of lines of such a document, at most
MaxChainLines == 4

ChainFrags ==
    { Chars("d = ${a}"),
      Chars("a = ${b}"),
      Chars("b = ${c}"),
      Chars("a = ${b.x}"),
      Chars("c = 5"),
      Chars("c = [1, 2]"),
      Chars("c { x = 1 }") }

ChainDocs ==
    {Join(fs, <<"\n">>) : fs \in UNION {[1..n -> ChainFrags] : n \in 0..MaxChainLines}}

InitChain ==
    /\ content \in ChainDocs
    /\ env = <<>>
    /\ overrides = <<>>
    /\ pc = "start"
    /\ lines = <<>>
    /\ cursor = 1
    /\ stack = <<>>
    /\ tree = EmptyObj
    /\ error = NoError
    /\ unit = NoUnit

NextChain ==
    \/ Preprocess
    \/ SingleLineBlock
    \/ Assign
    \/ BlocksDone
    \/ ApplyOverrides
    \/ ResolveFallbacks
    \/ ResolveReferences

SpecChain == InitChain /\ [][NextChain]_vars

----------------------------------------------------------------------------
(* Comments: documents of comment lines and assignments *)

\* the number of physical lines of such a document, at most
MaxCommentLines == 3

CommentFrags ==
    { Chars("# note"),
      Chars("  // a = 2"),
      Chars("# see [docs"),
      Chars("# \"\"\" text"),
      Chars("a = 1"),
      Chars("b = \"d\"") }

CommentDocs ==
    {Join(fs, <<"\n">>) : fs \in UNION {[1..n -> CommentFrags] : n \in 0..MaxCommentLines}}

InitComment ==
    /\ content \in CommentDocs
    /\ env = <<>>
    /\ overrides = <<>>
    /\ pc = "start"
    /\ lines = <<>>
    /\ cursor = 1
    /\ stack = <<>>
    /\ tree = EmptyObj
    /\ error = NoError
    /\ unit = NoUnit

SpecComment == InitComment /\ [][NextValue]_vars

----------------------------------------------------------------------------
(* Arrays over several physical lines: k = [, one element a line, ]        *)

\* the number of elements of such an array, at most
MaxElements == 3

ElementTexts == {Chars("1"), Chars("2"), Chars("x")}
\* what follows an element on its line, and what precedes it
ElementEnds == {<<>>, Chars(","), Chars(" ")}
ElementIndents == {<<>>, Chars("  ")}

ElementLists == UNION {[1..n -> ElementTexts] : n \in 1..MaxElements}

\* the physical lines of the array: the opening line, the elements, the closing line
ArrayLines(u) ==
    <<Chars("k = [")>>
    \o [i \in DOMAIN u.items |->
          u.indent \o u.items[i] \o (IF i < Len(u.items) THEN u.end ELSE <<>>)]
    \o <<Chars("]")>>

InitArray ==
    /\ unit \in [fn : {"array"}, items : ElementLists, end : ElementEnds,
                 indent : ElementIndents]
    /\ content = Join(ArrayLines(unit), <<"\n">>)
    /\ env = <<>>
    /\ overrides = <<>>
    /\ pc = "start"
    /\ lines = <<>>
    /\ cursor = 1
    /\ stack = <<>>
    /\ tree = EmptyObj
    /\ error = NoError

SpecArray == InitArray /\ [][NextValue]_vars

----------------------------------------------------------------------------
(* Triple-quoted strings: k = three quotes, the lines of the string, three *)
(* quotes or the end of input, and perhaps one more assignment             *)

\* the number of lines of such a string, at most
MaxStringLines == 3

StringLineTexts == {Chars("42"), Chars("null"), Chars(" a b")}
StringTexts == UNION {[1..n -> StringLineTexts] : n \in 1..MaxStringLines}
LineAfter == Chars("b = 7")

\* the physical lines of the string: quotes before the first, and after the last
\* when the string is closed
StringLines(u) ==
    [i \in DOMAIN u.texts |->
        (IF i = 1 THEN Chars("k = ") \o TripleQuote ELSE <<>>)
        \o u.texts[i]
        \o (IF i = Len(u.texts) /\ u.closed THEN TripleQuote ELSE <<>>)]

InitTriple ==
    /\ unit \in [fn : {"triple"}, texts : StringTexts, closed : BOOLEAN,
                 after : {<<>>, <<LineAfter>>}]
    /\ content = Join(StringLines(unit) \o unit.after, <<"\n">>)
    /\ env = <<>>
    /\ overrides = <<>>
    /\ pc = "start"
    /\ lines = <<>>
    /\ cursor = 1
    /\ stack = <<>>
    /\ tree = EmptyObj
    /\ error = NoError

SpecTriple == InitTriple /\ [][NextValue]_vars

----------------------------------------------------------------------------
(* Values of several tokens: k = token token ... *)

\* the number of tokens of such a value, at most
MaxTokens == 3

TokenTexts ==
    { Chars("[1, 2]"),
      Chars("[3]"),
      Chars("{a = 1}"),
      Chars("{b = 2}"),
      Chars("{a = 3}"),
      Chars("x"),
      Chars("or"),
      Chars("]") }

TokenLists == UNION {[1..n -> TokenTexts] : n \in 2..MaxTokens}

InitConcat ==
    /\ unit \in [fn : {"concat"}, tokens : TokenLists]
    /\ content = Chars("k = ") \o Join(unit.tokens, <<" ">>)
    /\ env = <<>>
    /\ overrides = <<>>
    /\ pc = "start"
    /\ lines = <<>>
    /\ cursor = 1
    /\ stack = <<>>
    /\ tree = EmptyObj
    /\ error = NoError

SpecConcat == InitConcat /\ [][NextValue]_vars

----------------------------------------------------------------------------
(* Properties of a parse *)

KeyA == Chars("a")
KeyB == Chars("b")
EnvUnset == EnvName \notin DOMAIN env
\* the environment value as a lookup outside quotes delivers it
EnvCoerced == maybeConvertPrimitive(safeEnvLookup(env, EnvName))

\* a node tagged as a deferred Reference or Fallback
IsDeferred(v) == IsObj(v) /\ HasOwn(v, TypeKey) /\ GetProp(v, TypeKey) \in {RefTag, FallbackTag}

\* no deferred node anywhere in v: the entries of mappings, the items of sequences
\* and the properties a sequence carries besides its items
RECURSIVE NoDeferred(_)
NoDeferred(v) ==
    IF IsArr(v)
    THEN /\ \A i \in DOMAIN v.items : NoDeferred(v.items[i])
         /\ \A i \in DOMAIN v.vals : NoDeferred(v.vals[i])
    ELSE IF IsObj(v)
    THEN ~IsDeferred(v) /\ \A i \in DOMAIN v.vals : NoDeferred(v.vals[i])
    ELSE TRUE

\* C1: once parseString has returned, no node tagged REF or FALLBACK is left
\* anywhere in the returned tree.
C1_NoDeferredInResult == pc = "done" => NoDeferred(tree)

\* C2: the reference pass always ends with parseString returning: whatever the
\* tree holds, references that form a cycle included, no error is raised.
C2_ReferencePassReturns == [][pc = "references" => pc' = "done"]_vars

\* the lines key = ${?NAME} and key = ?NAME
IsEnvAssignLine(line) == line \in {Chars("b = ${?E}"), Chars("b = ?E")}
AtEnvAssign ==
    /\ AtLine("assign")
    /\ IsEnvAssignLine(lines[cursor])
    /\ ~isUndefOrNull(getVal(tree, KeyB))

C4_FallbackToLiteral ==
    (pc = "done" /\ content = Chars("b = ${?E} or \"fb\"") /\ EnvUnset)
        => getVal(tree, KeyB) = Str(Chars("fb"))

\* the sequence a += line appends: the parsed right-hand side
PlusNew == parseInlineValue(Cx, matchPlusAssign(lines[cursor]).val, 0).val
PlusKey == matchPlusAssign(lines[cursor]).key
AtSequenceAppend ==
    /\ AtLine("plus")
    /\ IsArr(getVal(tree, PlusKey))
    /\ IsArr(PlusNew)

\* C8 (as claimed): key += new on two sequences leaves key equal to the elements of
\* old followed by the elements of new, always.
C8_AppendAlways ==
    [][AtSequenceAppend =>
         getVal(tree', PlusKey) = Arr(getVal(tree, PlusKey).items \o PlusNew.items)]_vars

\* C8 (amended): as claimed, unless new has one element, absent or null, and old is
\* not empty: then key keeps old.
C8_AppendUnlessAbsent ==
    [][AtSequenceAppend =>
         getVal(tree', PlusKey) =
            IF /\ Len(PlusNew.items) = 1
               /\ PlusNew.items[1] \in {Undef, Null}
               /\ getVal(tree, PlusKey).items # <<>>
            THEN getVal(tree, PlusKey)
            ELSE Arr(getVal(tree, PlusKey).items \o PlusNew.items)]_vars

\* C8 witness: b = [1, 2] then b += [3] was parsed and b holds [1, 2, 3]
C8_Witness ==
    /\ pc = "blocks" /\ cursor = 3
    /\ lines = <<Chars("b = [1, 2]"), Chars("b += [3]")>>
    /\ getVal(tree, KeyB) = Arr(<<Num(1), Num(2), Num(3)>>)

\* the include lines of a file that does not exist, and of a file that requires one
MissingFile == Chars("m.conf")
RequiredMissingLine == Chars("include required(\"m.conf\")")
OptionalMissingLine == Chars("include \"m.conf\"")
NestedMissingLine == Chars("include \"g.conf\"")

\* C9: include required("<path>") of a missing file ends the parse with the
\* missing-include error, also when the line stands in an included file; include
\* "<path>" of a missing file raises nothing and leaves the mapping as it was.
C9_MissingIncludes ==
    [][(pc = "blocks" /\ cursor <= Len(lines)) =>
         /\ lines[cursor] \in {RequiredMissingLine, NestedMissingLine}
                => (pc' = "error" /\ error' = MissingRequiredInclude)
         /\ lines[cursor] = OptionalMissingLine
                => (pc' = "blocks" /\ error' = NoError /\ tree' = tree
                    /\ stack' = stack /\ cursor' = cursor + 1)]_vars

\* C9 witness: a mapping that holds a key went through include "m.conf" unchanged
C9_Witness ==
    /\ pc = "blocks" /\ cursor = 3 /\ MissingFile \notin DOMAIN Files
    /\ lines = <<Chars("a = 1"), OptionalMissingLine>>
    /\ tree = Obj(<<KeyA>>, <<Num(1)>>)

\* C10: the only error outcome of a parse is a missing required include.
C10_OnlyMissingIncludeFails == pc = "error" => error = MissingRequiredInclude


----------------------------------------------------------------------------
(* Properties of one value *)

ValueDone == pc = "done" /\ unit.fn = "value"
ValueOfC == getVal(tree, KeyC)
IsLookupText(t) == t \in LookupTexts
IsReferenceText(t) == t \in RefTexts

\* the text without its sign, and the places of its decimal points
Unsign(t) == IF t[1] \in {"+", "-"} THEN Tail(t) ELSE t
PointsOf(u) == {i \in DOMAIN u : u[i] = "."}
\* optional sign, digits, optional point and digits
IsNumberForm(t) ==
    LET u == Unsign(t)
    IN  /\ u # <<>>
        /\ \A i \in DOMAIN u : IsDigit(u[i]) \/ u[i] = "."
        /\ Cardinality(PointsOf(u)) <= 1
        /\ IsDigit(u[1]) /\ IsDigit(u[Len(u)])
HasPoint(t) == PointsOf(t) # {}
FractionOf(t) == IF HasPoint(t) THEN SubSeq(t, Min(PointsOf(t)) + 1, Len(t)) ELSE <<>>
AllDigitsOf(t) == SelectSeq(Unsign(t), IsDigit)
IsIntegerValued(t) == \A i \in DOMAIN FractionOf(t) : FractionOf(t)[i] = "0"
\* v is the number the text t writes: v.mant / 10^v.scale = digits / 10^(fraction length)
IsNumberWritten(v, t) ==
    /\ IsNum(v)
    /\ v.mant * Pow10(Len(FractionOf(t))) = DigitsValue(AllDigitsOf(t)) * Pow10(v.scale)
    /\ v.neg = (t[1] = "-" /\ DigitsValue(AllDigitsOf(t)) # 0)

C6_QuotedIsString == (ValueDone /\ unit.quote # <<>>) => IsStr(ValueOfC)

\* C6: a value written in one layer of quotes ends as a String, unless the quoted
\* text is a lookup ?NAME or ${?NAME}, which gives the variable's text as a String
\* when NAME is set and leaves the key absent when it is not, or a reference
\* ${path}, which gives the key the value at path.
C6_QuotedIsStringUnlessLookup ==
    (ValueDone /\ unit.quote # <<>>)
    => IF IsLookupText(unit.text)
       THEN IF EnvUnset THEN IsUndef(ValueOfC) ELSE ValueOfC = safeEnvLookup(env, EnvName)
       ELSE IF IsReferenceText(unit.text) THEN ValueOfC = getVal(tree, KeyB)
       ELSE ValueOfC = Str(unit.text)

\* c = "2.5" has given the string "2.5"
C6_Witness ==
    /\ ValueDone /\ unit.quote = DQ /\ unit.text = Chars("2.5")
    /\ ValueOfC = Str(Chars("2.5"))

----------------------------------------------------------------------------
(* Properties of one merge *)

NewKeys(target, source) == SelectSeq(source.keys, LAMBDA k : ~HasOwn(target, k))
\* the sequence old with its index 0 set to x
PatchedFirst(old, x) ==
    Arr([i \in 1..(IF old.items = <<>> THEN 1 ELSE Len(old.items)) |->
            IF i = 1 THEN x ELSE old.items[i]])
RECURSIVE MergeRule(_, _)
RuleValue(old, v) ==
    IF IsObj(old) /\ IsObj(v) THEN MergeRule(old, v)
    ELSE IF IsArr(old) /\ IsArr(v)
    THEN IF Len(v.items) # 1 THEN v
         ELSE IF IsUndef(v.items[1]) \/ IsNull(v.items[1]) THEN old
         ELSE PatchedFirst(old, v.items[1])
    ELSE v
MergeRule(target, source) ==
    LET keys == target.keys \o NewKeys(target, source)
    IN  Obj(keys, [i \in DOMAIN keys |->
                     IF HasOwn(source, keys[i])
                     THEN RuleValue(GetProp(target, keys[i]), GetProp(source, keys[i]))
                     ELSE GetProp(target, keys[i])])

\* C7: mergeObjs(target, source) leaves in target, for every key of source, the
\* recursive merge of two mappings, for two sequences the target sequence (source
\* of one absent or null element), the target sequence with index 0 replaced
\* (source of one present element) or the source sequence (any other length), and
\* the source value in every other combination; the other keys of target are
\* unchanged.
C7_MergeRule == pc = "merged" => unit.out = MergeRule(unit.target, unit.source)

\* a: [1, 9] merged with a: [9] has given a: [9, 9], b untouched
C7_Witness ==
    /\ pc = "merged"
    /\ GetProp(unit.target, KeyA) = Arr(<<Num(1), Num(9)>>)
    /\ unit.source = Obj(<<KeyA>>, <<Arr(<<Num(9)>>)>>)
    /\ unit.out = Obj(<<KeyA, KeyB>>, <<Arr(<<Num(9), Num(9)>>), Num(5)>>)

----------------------------------------------------------------------------
(* Properties of the overrides *)

OverridePath == Chars("a.x")
OverrideValue == Str(Chars("o"))
HasOverride == overrides = << <<OverridePath, OverrideValue>> >>

\* C11: once parseString has returned, the tree holds at the path of the override
\* entry the value as it was supplied, whatever the document held there.
C11_OverrideReplaces == (pc = "done" /\ HasOverride) => getVal(tree, OverridePath) = OverrideValue

\* v, or something inside v, holds the value of the override at the path of the override
RECURSIVE HoldsOverrideCopy(_)
HoldsOverrideCopy(v) ==
    IF IsObj(v)
    THEN \/ getVal(v, OverridePath) = OverrideValue
         \/ \E i \in DOMAIN v.vals : HoldsOverrideCopy(v.vals[i])
    ELSE IF IsArr(v)
    THEN \/ \E i \in DOMAIN v.items : HoldsOverrideCopy(v.items[i])
         \/ \E i \in DOMAIN v.vals : HoldsOverrideCopy(v.vals[i])
    ELSE FALSE

\* C13: once parseString has returned, no mapping below the root holds a copy of
\* the override: its value is at its path from the root only.
C13_NoNestedCopy ==
    (pc = "done" /\ HasOverride) => \A i \in DOMAIN tree.vals : ~HoldsOverrideCopy(tree.vals[i])

ReferenceToOverride == Chars("b = ${a.x}")
\* the document ends with b = ${a.x} and the override a.x = "o" was given
EndsWithReferenceToOverride ==
    /\ HasOverride
    /\ lines # <<>>
    /\ lines[Len(lines)] = ReferenceToOverride

\* C12: once parseString has returned, a key assigned the reference ${a.x} holds the
\* value the override set at a.x, whatever the document assigned to a.
C12_ReferenceSeesOverride ==
    (pc = "done" /\ EndsWithReferenceToOverride) => getVal(tree, KeyB) = OverrideValue

----------------------------------------------------------------------------
(* Properties of parse *)

Parsed == pc = "parsed" /\ unit.out.err = NoError
CallerPath == Chars("a.b")
HasCallerOverride == unit.options.overrides # <<>>

\* C14: once parse has returned, the document holds the caller's value at the path
\* of each entry of the caller's overrides.
C14_CallerOverridesLast ==
    (Parsed /\ HasCallerOverride) => getVal(unit.out.val, CallerPath) = Str(Chars("z"))

CliArg == Chars("--a.b=x")
HasArg(arg) == \E i \in DOMAIN unit.argv : unit.argv[i] = arg
\* the command line holds --a.b=x and no other override, and the environment holds
\* a variable of the same path (a_b) or of a prefix of it (a)
CliCollidesWithEnv ==
    /\ unit.options.parseEnv /\ unit.options.parseArgs /\ unit.options.envPrefix = <<>>
    /\ HasArg(CliArg) /\ ~HasArg(Chars("--a=y"))
    /\ \E i \in DOMAIN unit.env : unit.env[i][1] \in {Chars("a_b"), Chars("a")}

\* C15: once parse has returned, the value given on the command line is at its path
\* whenever an environment variable collides with it, in every order of the
\* environment.
C15_CommandLineWins ==
    (Parsed /\ CliCollidesWithEnv) => getVal(unit.out.val, CallerPath) = Str(Chars("x"))

----------------------------------------------------------------------------
(* Properties of includes and assignments *)

PortsKey == Chars("server.ports")
BasePorts == Arr(<<Num(8080), Num(9090), Num(10000)>>)
IncludeBaseLine == Chars("include \"base.conf\"")
EnvPortsLine == Chars("server.ports = [${?E}]")

\* C16: after include "base.conf" and then server.ports = [${?E}], the array is as
\* the base file set it if E is unset, and has only its index 0 replaced by the
\* value of E if E is set.
C16_PartialArrayByAssignment ==
    (pc = "done" /\ lines = <<IncludeBaseLine, EnvPortsLine>>)
    => getVal(tree, PortsKey) =
          IF EnvUnset \/ IsNull(EnvCoerced) THEN BasePorts
          ELSE Arr(<<EnvCoerced, Num(9090), Num(10000)>>)

KeyK == Chars("k")
IncludeBLine == Chars("include \"b.conf\"")
AssignALine == Chars("k = \"A\"")
AssignZLine == Chars("k = \"Z\"")
AssignPortsLine == Chars("server.ports = [1, 2]")
\* what parsing b.conf, which includes c.conf, gives
IncludedB ==
    Obj(<<KeyK, Chars("kb"), Chars("server"), Chars("kc")>>,
        <<Str(Chars("B")), Num(1), Obj(<<Chars("ports")>>, <<Arr(<<Num(7)>>)>>), Num(1)>>)
IncludedPaths == {KeyK, Chars("kb"), Chars("kc"), PortsKey}
\* the loop of parseBlock is at this line
AtText(line) == pc = "blocks" /\ cursor <= Len(lines) /\ lines[cursor] = line

\* C18 as stated: the include line leaves every key of the included document,
\* those of the file it includes too, with the included document's value,
\* whatever the including document assigned earlier.
C18_IncludeOverrides ==
    [][AtText(IncludeBLine)
       => \A path \in IncludedPaths : getVal(tree', path) = getVal(IncludedB, path)]_vars

\* C18: the include line leaves the merge, by the merge rule, of the included
\* document (the file it includes merged into it) into what the including
\* document holds at that line; an assignment line after it leaves its key with
\* the value assigned.
C18_IncludeMergedInPlace ==
    [][/\ AtText(IncludeBLine) => tree' = MergeRule(tree, IncludedB)
       /\ AtText(AssignALine) => getVal(tree', KeyK) = Str(Chars("A"))
       /\ AtText(AssignZLine) => getVal(tree', KeyK) = Str(Chars("Z"))
       /\ AtText(AssignPortsLine) => getVal(tree', PortsKey) = Arr(<<Num(1), Num(2)>>)]_vars

\* server.ports = [1, 2], include "b.conf", k = "Z" was parsed: index 0 of the
\* sequence is the included 7, k is the later "Z", kb and kc came with the include
C18_Witness ==
    /\ pc = "done"
    /\ lines = <<AssignPortsLine, IncludeBLine, AssignZLine>>
    /\ getVal(tree, PortsKey) = Arr(<<Num(7), Num(2)>>)
    /\ getVal(tree, KeyK) = Str(Chars("Z"))
    /\ getVal(tree, Chars("kb")) = Num(1)
    /\ getVal(tree, Chars("kc")) = Num(1)

----------------------------------------------------------------------------
(* Properties of a key assigned twice *)

\* the value each text of TwiceTexts writes
ValueWritten(text) ==
    CASE text = Chars("\"first\"") -> Str(Chars("first"))
      [] text = Chars("\"second\"") -> Str(Chars("second"))
      [] text = Chars("5") -> Num(5)
      [] text = Chars("[8080, 9090]") -> Arr(<<Num(8080), Num(9090)>>)
      [] text = Chars("[10000]") -> Arr(<<Num(10000)>>)
      [] text = Chars("[null]") -> Arr(<<Null>>)
      [] text = Chars("[${?E}]") -> Arr(<<EnvCoerced>>)
      [] text = Chars("{ x = 1 }") -> Obj(<<Chars("x")>>, <<Num(1)>>)
TwiceDone == pc = "done" /\ unit.fn = "twice"
\* a sequence of one element that is absent or null
IsOneAbsent(v) == IsArr(v) /\ Len(v.items) = 1 /\ v.items[1] \in {Undef, Null}
IsNonEmptySequence(v) == IsArr(v) /\ v.items # <<>>

\* C17 as stated: a key assigned twice ends with exactly the second value.
C17_LastDefinitionWins == TwiceDone => getVal(tree, KeyK) = ValueWritten(unit.second)

\* C17: a key assigned twice ends with exactly the second value, unless the second
\* is a sequence of one absent or null element and the first a non-empty sequence:
\* then it ends with the first value.
C17_LastDefinitionWinsUnlessAbsent ==
    TwiceDone
    => getVal(tree, KeyK) =
          IF IsOneAbsent(ValueWritten(unit.second))
             /\ IsNonEmptySequence(ValueWritten(unit.first))
          THEN ValueWritten(unit.first)
          ELSE ValueWritten(unit.second)

\* k = [8080, 9090] then k = [10000] has given the one-element [10000]
C17_Witness ==
    /\ TwiceDone
    /\ unit.first = Chars("[8080, 9090]") /\ unit.second = Chars("[10000]")
    /\ getVal(tree, KeyK) = Arr(<<Num(10000)>>)

----------------------------------------------------------------------------
(* Properties of an included document *)

\* f.conf holds  b = 7 / d = ${b} / e = ${a} : a is assigned by no included file
IncludeFLine == Chars("include \"f.conf\"")
IncludesF == \E i \in DOMAIN lines : lines[i] = IncludeFLine

\* C19: a reference written in an included file is resolved against the included
\* file's own root: e = ${a} of f.conf ends absent whatever the including document
\* assigns to a, and d = ${b} has the value f.conf itself gives b.
C19_IncludedResolvedAlone ==
    (pc = "done" /\ overrides = <<>> /\ IncludesF)
    => /\ getVal(tree, Chars("e")) = Undef
       /\ lines[Len(lines)] = IncludeFLine => getVal(tree, Chars("d")) = Num(7)

\* a = 1 then include "f.conf" was parsed: a is 1, d is 7 and e is absent
C19_Witness ==
    /\ pc = "done" /\ overrides = <<>>
    /\ lines = <<Chars("a = 1"), IncludeFLine>>
    /\ getVal(tree, KeyA) = Num(1)
    /\ getVal(tree, Chars("d")) = Num(7)
    /\ getVal(tree, Chars("e")) = Undef

----------------------------------------------------------------------------
(* Properties of several calls *)

----------------------------------------------------------------------------
(* Properties of the block parser *)

\* the loop of some parseBlock invocation is at a line
AtSomeLine == pc = "blocks" /\ cursor <= Len(lines)

\* the block parser is done: parseBlock(result) has returned
AfterBlocks == pc \in {"overrides", "fallbacks", "references", "done"}

\* C21: the line cursor never decreases, whichever parseBlock invocation moves
\* it; an iteration at a line that lets parsing go on leaves the cursor exactly
\* one line further, so no line is handled twice (the other iterations end the
\* loop: a return at a closing line, or an exception that ends the call); and
\* once the block parser is done the cursor is at most one past the last line,
\* which is currentIndex <= lines.length.
C21_CursorForward ==
    [][/\ cursor' >= cursor
       /\ (AtSomeLine /\ pc' = "blocks") => cursor' = cursor + 1
       /\ AfterBlocks' => cursor' <= Len(lines') + 1]_vars

\* a block was opened and closed and a line after it handled: the cursor stands
\* past the fourth line
C21_Witness ==
    /\ lines = <<Chars("c {"), Chars("x = 1"), Chars("}"), Chars("a = 5")>>
    /\ pc = "done"
    /\ cursor = 5
    /\ getVal(tree, Chars("c.x")) = Num(1)
    /\ getVal(tree, KeyA) = Num(5)

\* the index of the first closing line of the document that closes no block, 0
\* when there is none: open is the number of blocks open before line i
RECURSIVE StrayCloseFrom(_, _)
StrayCloseFrom(i, open) ==
    IF i > Len(lines) THEN 0
    ELSE IF StartsWith(lines[i], Chars("}"))
    THEN IF open = 0 THEN i ELSE StrayCloseFrom(i + 1, open - 1)
    ELSE IF EndsWith(lines[i], Chars("{")) THEN StrayCloseFrom(i + 1, open + 1)
    ELSE StrayCloseFrom(i + 1, open)

StrayClose == StrayCloseFrom(1, 0)

\* the document up to the line before the closing line that closes no block
BeforeStrayClose == Join(SubSeq(lines, 1, StrayClose - 1), <<"\n">>)

\* C28: a document with a closing line that closes no block is parsed without
\* error, and its result is the result of the lines before that closing line,
\* overrides and resolution passes included: no later line contributes.
C28_StrayCloseStops ==
    (pc \notin {"start", "blocks"} /\ StrayClose # 0) =>
        /\ pc # "error"
        /\ pc = "done" => Ok(tree) = parseString(Cx, BeforeStrayClose, overrides, 0)

\* c.x = 1, a closing line, a = 5, with the override a.x: the result holds c.x
\* and the override, and nothing of the line a = 5
C28_Witness ==
    /\ lines = <<Chars("c.x = 1"), Chars("}"), Chars("a = 5")>>
    /\ overrides # <<>>
    /\ pc = "done"
    /\ tree = Obj(<<KeyC, KeyA>>,
                  <<Obj(<<KeyX>>, <<Num(1)>>), Obj(<<KeyX>>, <<Str(Chars("o"))>>)>>)

KeyCX == Chars("c.x")
KeyCY == Chars("c.y")
OneLineBlockC == Chars("c { y = 2 }")
DottedCX == Chars("c.x = 1")

\* the object being filled holds a mapping at c
HoldsMappingAtC == IsObj(getVal(tree, KeyC))

\* the keys of mapping m other than k
SiblingsOf(m, k) == {m.keys[i] : i \in DOMAIN m.keys} \ {k}

\* C29: where c already holds a mapping, the one-line block c { y = 2 } leaves c
\* holding y alone of the two keys x and y; a block c { ... } closed on a later
\* line leaves c holding exactly the mapping its lines built; and the dotted
\* assignment c.x = 1 sets x and leaves every other key of the mapping at c as
\* it was.
C29_ReopenReplaces ==
    [][/\ (pc = "blocks" /\ cursor <= Len(lines) /\ HoldsMappingAtC /\ pc' = "blocks"
              /\ lines[cursor] = OneLineBlockC)
          => /\ getVal(tree', KeyCY) = Num(2)
             /\ getVal(tree', KeyCX) = Undef
       /\ (pc = "blocks" /\ Len(stack') < Len(stack) /\ stack[1].key = KeyC)
          => getVal(tree', KeyC) = tree
       /\ (pc = "blocks" /\ cursor <= Len(lines) /\ HoldsMappingAtC /\ pc' = "blocks"
              /\ lines[cursor] = DottedCX)
          => /\ getVal(tree', KeyCX) = Num(1)
             /\ \A k \in SiblingsOf(getVal(tree, KeyC), KeyX) :
                   GetProp(getVal(tree', KeyC), k) = GetProp(getVal(tree, KeyC), k)]_vars

\* c { y = 2 }, then c reopened over three lines with x = 1: c holds x alone
C29_Witness ==
    /\ lines = <<OneLineBlockC, Chars("c {"), Chars("x = 1"), Chars("}")>>
    /\ overrides = <<>>
    /\ pc = "done"
    /\ tree = Obj(<<KeyC>>, <<Obj(<<KeyX>>, <<Num(1)>>)>>)

AIsFive == Chars("a = 5")
ANamesP == Chars("a = ${p}")

\* no line of the document opens or closes a block: every line is at the top level
NoBlockLines ==
    \A i \in DOMAIN lines :
        ~StartsWith(lines[i], Chars("}")) /\ ~EndsWith(lines[i], Chars("{"))

\* a = 5 is followed by a = ${p}, and no a = 5 follows that
ReferenceAfterValue ==
    \E i \in DOMAIN lines, j \in DOMAIN lines :
        /\ i < j
        /\ lines[i] = AIsFive
        /\ lines[j] = ANamesP
        /\ \A n \in DOMAIN lines : n > j => lines[n] # AIsFive

\* C30: a key that holds a value and is then assigned a reference to a path the
\* document does not hold takes the reference at once, the earlier value being
\* dropped, and ends absent; the parse raises no error.
C30_ReferenceNotSkipped ==
    (NoBlockLines /\ ReferenceAfterValue) =>
        /\ pc # "error"
        /\ pc \in {"overrides", "fallbacks", "references"} => IsRefNode(getVal(tree, KeyA))
        /\ pc = "done" => getVal(tree, KeyA) = Undef

\* a = 5, then a = ${p}: the result holds the key a with nothing in it
C30_Witness ==
    /\ lines = <<AIsFive, ANamesP>>
    /\ overrides = <<>>
    /\ pc = "done"
    /\ tree = Obj(<<KeyA>>, <<Undef>>)

----------------------------------------------------------------------------
(* Properties of references *)

KeyD == Chars("d")
DNamesA == Chars("d = ${a}")
ANamesB == Chars("a = ${b}")
BNamesC == Chars("b = ${c}")
ANamesBX == Chars("a = ${b.x}")
CIsFive == Chars("c = 5")
CIsList == Chars("c = [1, 2]")
CIsBlock == Chars("c { x = 1 }")

\* the line is in the document
HasLine(line) == \E i \in DOMAIN lines : lines[i] = line

\* the line is the last one of the document that assigns its key: none of the
\* others follows it
IsLastOf(line, others) ==
    \E i \in DOMAIN lines :
        /\ lines[i] = line
        /\ \A j \in DOMAIN lines : j > i => lines[j] \notin others

\* every reference of the document names a whole key
WholeKeysOnly == ~HasLine(ANamesBX)

\* the reference pass on the tree as it stands
ReferenceWalk ==
    resolveReferences([root |-> tree, visited |-> {}, held |-> {}, err |-> NoError],
                      tree, <<>>, TRUE, 0)

\* no object is held at two places
NoNodeShared(held) == \A h1 \in held, h2 \in held : h1[2] = h2[2] => h1[1] = h2[1]

\* the final target as the document wrote it
ChainEndAsWritten ==
    /\ IsLastOf(CIsFive, {CIsList, CIsBlock}) => getVal(tree, KeyC) = Num(5)
    /\ IsLastOf(CIsList, {CIsFive, CIsBlock}) => getVal(tree, KeyC) = Arr(<<Num(1), Num(2)>>)
    /\ IsLastOf(CIsBlock, {CIsFive, CIsList}) => getVal(tree, KeyC) = Obj(<<KeyX>>, <<Num(1)>>)

\* C22: in a document whose references name whole keys and form no cycle, a key
\* written as a reference ends with the value of the key it names, so every key
\* of a chain ends with the value of the chain's last key, which is the value the
\* document wrote there; and the reference pass leaves no mapping or sequence
\* object held at two places of the tree: each reference site holds its own copy.
C22_ChainResolved ==
    /\ (pc = "done" /\ WholeKeysOnly) =>
          /\ HasLine(DNamesA) => getVal(tree, KeyD) = getVal(tree, KeyA)
          /\ HasLine(ANamesB) => getVal(tree, KeyA) = getVal(tree, KeyB)
          /\ HasLine(BNamesC) => getVal(tree, KeyB) = getVal(tree, KeyC)
          /\ ChainEndAsWritten
    /\ (pc = "references" /\ WholeKeysOnly) =>
          /\ ReferenceWalk.st.err = NoError
          /\ NoNodeShared(ReferenceWalk.st.held)

\* a chain of three references that ends at a mapping: all four keys hold it
C22_Witness ==
    /\ lines = <<DNamesA, ANamesB, BNamesC, CIsBlock>>
    /\ pc = "done"
    /\ getVal(tree, KeyD) = Obj(<<KeyX>>, <<Num(1)>>)
    /\ getVal(tree, KeyA) = Obj(<<KeyX>>, <<Num(1)>>)
    /\ getVal(tree, KeyB) = Obj(<<KeyX>>, <<Num(1)>>)
    /\ getVal(tree, KeyC) = Obj(<<KeyX>>, <<Num(1)>>)

\* C23: a = ${b.x}, where b = ${c} and c.x = 1, ends with a = 1 wherever in the
\* document the line of a stands, before the line of b or after it.
C23_OrderIrrelevant ==
    (pc = "done" /\ HasLine(BNamesC)
        /\ IsLastOf(ANamesBX, {ANamesB}) /\ IsLastOf(CIsBlock, {CIsFive, CIsList}))
    => getVal(tree, KeyA) = Num(1)

----------------------------------------------------------------------------
(* Properties of lines *)

\* the physical lines of the text
PhysicalLines(text) == SplitOn(text, "\n")

\* a physical line whose first non-blank characters are # or //
IsCommentLine(line) == IsComment(Trim(line))

\* the text with its comment lines removed
Uncommented(text) ==
    Join(SelectSeq(PhysicalLines(text), LAMBDA l : ~IsCommentLine(l)), <<"\n">>)

\* C24: the parsed tree of a document is the parsed tree of the same document
\* with its comment lines removed, whatever text the comments hold.
C24_CommentsInert ==
    pc = "done" => Ok(tree) = parseString(Cx, Uncommented(content), overrides, 0)


\* the same array written on one physical line: a space for every line break
OnOneLine(text) == Join(PhysicalLines(text), <<" ">>)

\* C25: an array written with its elements on separate physical lines parses to
\* the Sequence that the same elements, separated the same way, give on one line.
C25_ArrayOverLines ==
    pc = "done" => Ok(tree) = parseString(Cx, OnOneLine(content), overrides, 0)


\* the lines of the string joined by line breaks
StringWritten == Str(Join(unit.texts, <<"\n">>))

\* the lines of an unclosed string: all the lines up to the end of input
UnclosedWritten == Str(Join(unit.texts \o unit.after, <<"\n">>))

\* C26: a triple-quoted string whose closing quotes stand on a later line, or
\* nowhere, is one logical line; the parse ends without error and k is the
\* String of the string's lines joined by line breaks, uncoerced; the lines
\* after a closed string are parsed as usual, and an unclosed string takes
\* every line up to the end of input.
C26_TripleQuoted ==
    /\ pc # "error"
    /\ (pc = "blocks" /\ unit.closed) => Len(lines) = 1 + Len(unit.after)
    /\ (pc = "blocks" /\ ~unit.closed) => Len(lines) = 1
    /\ (pc = "done" /\ unit.closed) =>
          /\ getVal(tree, KeyK) = StringWritten
          /\ unit.after # <<>> => getVal(tree, KeyB) = Num(7)
    /\ (pc = "done" /\ ~unit.closed) =>
          /\ getVal(tree, KeyK) = UnclosedWritten
          /\ getVal(tree, KeyB) = Undef

----------------------------------------------------------------------------
(* Properties of a value of several tokens *)

IsGroupText(tok) == tok[1] \in {"[", "{"}

\* the value holds more than one top-level group
HoldsGroups == Cardinality({i \in DOMAIN unit.tokens : IsGroupText(unit.tokens[i])}) > 1

\* the value is X or Y
IsOrForm == Len(unit.tokens) = 3 /\ unit.tokens[2] = Chars("or")

\* what a token resolves to
TokenValue(tok) ==
    CASE tok = Chars("[1, 2]") -> Arr(<<Num(1), Num(2)>>)
      [] tok = Chars("[3]") -> Arr(<<Num(3)>>)
      [] tok = Chars("{a = 1}") -> Obj(<<KeyA>>, <<Num(1)>>)
      [] tok = Chars("{b = 2}") -> Obj(<<KeyB>>, <<Num(2)>>)
      [] tok = Chars("{a = 3}") -> Obj(<<KeyA>>, <<Num(3)>>)
      [] OTHER -> Str(tok)

\* the textual form of what a token resolves to
TokenForm(tok) ==
    CASE tok = Chars("[1, 2]") -> Chars("1,2")
      [] tok = Chars("[3]") -> Chars("3")
      [] tok[1] = "{" -> Chars("[object Object]")
      [] OTHER -> tok

RECURSIVE ItemsInOrder(_)
ItemsInOrder(toks) ==
    IF toks = <<>> THEN <<>> ELSE TokenValue(toks[1]).items \o ItemsInOrder(Tail(toks))

RECURSIVE MergedInOrder(_, _)
MergedInOrder(acc, toks) ==
    IF toks = <<>> THEN acc ELSE MergedInOrder(MergeRule(acc, TokenValue(toks[1])), Tail(toks))

\* the value the rule of concatenation gives
Concatenated(toks) ==
    IF \A i \in DOMAIN toks : toks[i][1] = "[" THEN Arr(ItemsInOrder(toks))
    ELSE IF \A i \in DOMAIN toks : toks[i][1] = "{" THEN MergedInOrder(EmptyObj, toks)
    ELSE Str(Join([i \in DOMAIN toks |-> TokenForm(toks[i])], <<" ">>))

\* C27: a value of more than one top-level group that is no X or Y is parsed
\* without error into the concatenation of its Sequences, or the left-to-right
\* merge of its Mappings, or else the String of its tokens' textual forms joined
\* by single spaces.
C27_Concatenation ==
    (HoldsGroups /\ ~IsOrForm) =>
        /\ pc # "error"
        /\ pc = "done" => getVal(tree, KeyK) = Concatenated(unit.tokens)
====
